---------------------------- MODULE Spec2Model ----------------------------
(***************************************************************************)
(* Verification model of the sd_team_edu services:                         *)
(*   - thirdsession  RagService.stream / RagJobService (event streams)     *)
(*   - secondsession ChatService / ChatWorker (job queue, cancel, status)  *)
(*   - the job queues and the per-job stream event queue                   *)
(*   - thirdsession  RagPipelineGraph (the request-to-answer pipeline)     *)
(* Each subsystem has its own specification (SpecRag, SpecWorker, ...);    *)
(* the variables of the other subsystems stay at their initial values.     *)
(***************************************************************************)
EXTENDS Integers, Sequences, FiniteSets, TLC

VARIABLES
    \* ---- thirdsession RagService.stream (one streaming request)
    svcPc,        \* position of the async generator
    svcResult,    \* result_state returned by graph.run
    svcPending,   \* token strings still to be yielded by StreamAnswerNode.run
    svcIndex,     \* StreamAnswerNode.run's local index
    svcOut,       \* SSE payloads yielded so far, in order
    svcFailed,    \* the except branch of stream was entered
    \* ---- thirdsession RagJobService
    rjsGraphSet,  \* self._graph is not None
    rjsQueueSet,  \* self._event_queue is not None
    rjsJobs,      \* self._jobs: job id -> [status, canceled]
    rjsEvents,    \* self._job_events: job id -> list of JobStreamResponse
    rjsQueue,     \* the event queue's per-job list written by _append_event
    rjsStream     \* what the last stream_events(job) call returned (None: no call yet)

svcVars == <<svcPc, svcResult, svcPending, svcIndex, svcOut, svcFailed>>
rjsVars == <<rjsGraphSet, rjsQueueSet, rjsJobs, rjsEvents, rjsQueue, rjsStream>>

-----------------------------------------------------------------------------
(* Optional values: None is the empty tuple, Some(x) the one-element tuple. *)
None == <<>>
Some(x) == <<x>>
IsNone(o) == o = <<>>

(* Strings are sequences of characters; " " is the only whitespace. *)
IsSpace(c) == c = " "

RECURSIVE LStrip(_)
LStrip(s) == IF s = <<>> THEN s
             ELSE IF IsSpace(Head(s)) THEN LStrip(Tail(s)) ELSE s

RECURSIVE RStrip(_)
RStrip(s) == IF s = <<>> THEN s
             ELSE IF IsSpace(s[Len(s)]) THEN RStrip(SubSeq(s, 1, Len(s) - 1)) ELSE s

Strip(s) == RStrip(LStrip(s))

RECURSIVE RunLen(_, _)
\* length of the longest prefix of s whose characters all satisfy space = sp
RunLen(s, sp) == IF s = <<>> \/ IsSpace(Head(s)) # sp THEN 0
                 ELSE 1 + RunLen(Tail(s), sp)

RECURSIVE FindAllTokens(_)
\* re.findall(r"\S+\s*", s)
FindAllTokens(s) ==
    IF s = <<>> THEN <<>>
    ELSE IF IsSpace(Head(s)) THEN FindAllTokens(Tail(s))
    ELSE LET w == RunLen(s, FALSE)
             rest == SubSeq(s, w + 1, Len(s))
             g == RunLen(rest, TRUE)
         IN <<SubSeq(s, 1, w + g)>> \o FindAllTokens(SubSeq(s, w + g + 1, Len(s)))

SplitAnswer(answer) ==
    LET cleaned == Strip(answer)
    IN IF cleaned = <<>> THEN <<>> ELSE FindAllTokens(cleaned)

-----------------------------------------------------------------------------
(* Stream events (thirdsession): type plus optional status/content/index/items *)
Event(t, s, c, i, it) ==
    [type |-> t, status |-> s, content |-> c, index |-> i, items |-> it]

TokenEvent(tok, idx) == Event("token", Some("in_progress"), Some(tok), Some(idx), None)
TokenEndEvent == Event("token", Some("end"), Some(<<>>), None, None)
ReferencesEvent(items) == Event("references", Some("end"), None, None, Some(items))
DoneEvent == Event("DONE", None, None, None, None)
ErrorEvent(msg) == Event("error", Some("end"), Some(msg), None, None)

NoEvidenceAnswer == <<"no", " ", "evidence">>
CanceledMessage == <<"job", " ", "canceled">>
JobFailedMessage == <<"job", " ", "failed">>

\* StreamAnswerNode._generate_answer when no prebuilt answer is given
GenerateAnswer(contexts, llm) ==
    IF contexts = <<>> THEN NoEvidenceAnswer
    ELSE IF llm = "ok" THEN <<"llm", " ", "answer">>
    ELSE <<"fallback", " ", "summary">>

\* the answer StreamAnswerNode.run streams
StreamedAnswer(prebuilt, contexts, llm) ==
    IF IsNone(prebuilt) THEN GenerateAnswer(contexts, llm) ELSE prebuilt[1]

\* StreamSourcesNode._normalize_sources: one item per source, in order
NormalizeSources(sources) == [i \in 1..Len(sources) |-> [source_id |-> sources[i]]]

-----------------------------------------------------------------------------
(* Collaborator outcomes of RagPipelineGraph.run as the services see them.  *)
(* jsonOk = FALSE: a source carries metadata json.dumps cannot serialise.   *)
GraphResult(answer, contexts, sources, code, jsonOk) ==
    [answer |-> answer, contexts |-> contexts, sources |-> sources,
     error_code |-> code, jsonOk |-> jsonOk]

GraphResults ==
    { GraphResult(Some(<<"the", " ", "answer">>), <<"c1">>, <<"s1">>, None, TRUE),
      GraphResult(Some(<<"the", " ", "answer">>), <<"c1">>, <<"s1">>, None, FALSE),
      GraphResult(Some(<<"blocked">>), <<>>, <<>>, Some("pii_blocked"), TRUE),
      GraphResult(Some(<<"not", " ", "found">>), <<>>, <<>>, Some("retrieval_empty"), TRUE) }

NoResult == GraphResult(None, <<>>, <<>>, None, TRUE)

(***************************************************************************)
(* RagService.stream: one step per yield of the async generator.           *)
(***************************************************************************)
SvcGraphRaises ==
    /\ svcPc = "start"
    /\ svcFailed' = TRUE
    /\ svcPending' = SplitAnswer(StreamedAnswer(None, <<>>, "none"))
    /\ svcIndex' = 1
    /\ svcPc' = "exc_answer"
    /\ UNCHANGED <<svcResult, svcOut>>

SvcGraphReturns ==
    /\ svcPc = "start"
    /\ \E r \in GraphResults :
         /\ svcResult' = r
         /\ svcPending' = SplitAnswer(StreamedAnswer(r.answer, r.contexts, "none"))
    /\ svcIndex' = 1
    /\ svcPc' = "answer"
    /\ UNCHANGED <<svcOut, svcFailed>>

SvcYieldToken ==
    /\ svcPc \in {"answer", "exc_answer"}
    /\ svcPending # <<>>
    /\ svcOut' = Append(svcOut, TokenEvent(Head(svcPending), svcIndex))
    /\ svcPending' = Tail(svcPending)
    /\ svcIndex' = svcIndex + 1
    /\ UNCHANGED <<svcPc, svcResult, svcFailed>>

SvcYieldTokenEnd ==
    /\ svcPc \in {"answer", "exc_answer"}
    /\ svcPending = <<>>
    /\ svcOut' = Append(svcOut, TokenEndEvent)
    /\ svcPc' = IF svcPc = "answer" THEN "sources" ELSE "exc_sources"
    /\ UNCHANGED <<svcResult, svcPending, svcIndex, svcFailed>>

\* StreamSourcesNode.run inside the try block: normalise, serialise, yield
SvcYieldReferences ==
    /\ svcPc = "sources"
    /\ svcResult.jsonOk
    /\ svcOut' = Append(svcOut, ReferencesEvent(NormalizeSources(svcResult.sources)))
    /\ svcPc' = "finally"
    /\ UNCHANGED <<svcResult, svcPending, svcIndex, svcFailed>>

\* to_sse_line raises TypeError before the references line is yielded
SvcSourcesRaise ==
    /\ svcPc = "sources"
    /\ ~svcResult.jsonOk
    /\ svcFailed' = TRUE
    /\ svcPending' = SplitAnswer(StreamedAnswer(None, <<>>, "none"))
    /\ svcIndex' = 1
    /\ svcPc' = "exc_answer"
    /\ UNCHANGED <<svcResult, svcOut>>

SvcYieldEmptyReferences ==
    /\ svcPc = "exc_sources"
    /\ svcOut' = Append(svcOut, ReferencesEvent(NormalizeSources(<<>>)))
    /\ svcPc' = "finally"
    /\ UNCHANGED <<svcResult, svcPending, svcIndex, svcFailed>>

\* the finally block
SvcYieldDone ==
    /\ svcPc = "finally"
    /\ svcOut' = Append(svcOut, DoneEvent)
    /\ svcPc' = "closed"
    /\ UNCHANGED <<svcResult, svcPending, svcIndex, svcFailed>>

-----------------------------------------------------------------------------
(***************************************************************************)
(* RagJobService: every public method runs under self._lock, so each is    *)
(* one atomic action.                                                      *)
(***************************************************************************)
RagJobIds == {"job-a", "job-b"}

\* JobStreamResponse.validate_by_event_type
ValidJobStreamResponse(e) ==
    CASE e.type = "token" ->
            /\ ~IsNone(e.status)
            /\ e.status[1] \in {"in_progress", "end"}
            /\ IsNone(e.items)
            /\ (e.status[1] = "in_progress" => ~IsNone(e.content))
      [] e.type = "references" ->
            /\ e.status = Some("end")
            /\ ~IsNone(e.items)
            /\ IsNone(e.content)
            /\ IsNone(e.index)
      [] e.type = "error" ->
            /\ ~IsNone(e.content)
            /\ Strip(e.content[1]) # <<>>
            /\ IsNone(e.items)
            /\ IsNone(e.index)
            /\ (IsNone(e.status) \/ e.status = Some("end"))
      [] e.type = "DONE" ->
            /\ IsNone(e.status) /\ IsNone(e.content)
            /\ IsNone(e.index) /\ IsNone(e.items)
      [] OTHER -> FALSE

\* ChatStreamEventQueue._normalize_event_type (thirdsession)
NormalizeEventType(t) == IF t \in {"done", "DONE", "Done"} THEN "DONE" ELSE t

\* ChatStreamEventQueue._validate_event (thirdsession): TRUE when it does not raise
ValidQueueEvent(e) ==
    LET t == NormalizeEventType(e.type) IN
    CASE t = "token" ->
            /\ ~IsNone(e.status)
            /\ e.status[1] \in {"in_progress", "end"}
            /\ (e.status[1] = "in_progress" => ~IsNone(e.content))
            /\ IsNone(e.items)
      [] t = "references" ->
            /\ e.status = Some("end")
            /\ ~IsNone(e.items)
            /\ IsNone(e.content)
      [] t = "error" ->
            /\ ~IsNone(e.content)
            /\ Strip(e.content[1]) # <<>>
            /\ (IsNone(e.status) \/ e.status = Some("end"))
      [] t = "DONE" ->
            /\ IsNone(e.status) /\ IsNone(e.content)
            /\ IsNone(e.index) /\ IsNone(e.items)
      [] OTHER -> FALSE

\* RagJobService._append_event on the pair (in-memory events, queue list);
\* raised = the JobStreamResponse constructor raised and nothing was appended
AppendEvent(st, e, persist) ==
    IF ~ValidJobStreamResponse(e) THEN [st EXCEPT !.raised = TRUE]
    ELSE [events |-> Append(st.events, e),
          queue |-> IF rjsQueueSet /\ persist /\ ValidQueueEvent(e)
                    THEN Append(st.queue, e) ELSE st.queue,
          raised |-> st.raised]

AppendDoneEventAlways(st) == AppendEvent(st, DoneEvent, TRUE)

\* RagJobService._append_done_event
AppendDoneEvent(st) ==
    IF st.events # <<>> /\ st.events[Len(st.events)].type = "DONE" THEN st
    ELSE AppendEvent(st, DoneEvent, TRUE)

RECURSIVE AppendAll(_, _)
\* the for loops over answer_lines / source_lines: stop at the first raise
AppendAll(st, evs) ==
    IF evs = <<>> \/ st.raised THEN st
    ELSE AppendAll(AppendEvent(st, Head(evs), TRUE), Tail(evs))

\* RagJobService._fallback_result_state
FallbackResultState == GraphResult(None, <<>>, <<"system:placeholder">>, None, TRUE)

\* RagJobService._run_graph_or_fallback, given what graph.run returned
RunGraphOrFallback(result) ==
    IF ~rjsGraphSet THEN FallbackResultState
    ELSE IF result.sources # <<>> THEN result
    ELSE FallbackResultState

\* the SSE lines StreamAnswerNode.run produces, parsed back to payloads
AnswerEvents(result) ==
    LET toks == SplitAnswer(StreamedAnswer(result.answer, result.contexts, "none"))
    IN [i \in 1..Len(toks) |-> TokenEvent(toks[i], i)] \o <<TokenEndEvent>>

\* Outcomes of one materialisation: graph \in {"raise", "ok"}, what graph.run
\* returned, and where _collect_async_events / serialisation fails, if at all.
MaterializeOutcomes ==
    {[graph |-> "raise", result |-> NoResult, failAt |-> "none"]}
    \cup [graph : {"ok"}, result : GraphResults, failAt : {"none", "answer", "sources"}]

\* RagJobService._materialize_inmemory_result_if_needed: the try block
MaterializeTry(st0, o) ==
    IF rjsGraphSet /\ o.graph = "raise" THEN [st0 EXCEPT !.raised = TRUE]
    ELSE LET result == RunGraphOrFallback(o.result) IN
         IF o.failAt = "answer" THEN [st0 EXCEPT !.raised = TRUE]
         ELSE LET st1 == AppendAll(st0, AnswerEvents(result)) IN
              IF st1.raised THEN st1
              ELSE IF o.failAt = "sources" \/ ~result.jsonOk
                   THEN [st1 EXCEPT !.raised = TRUE]
                   ELSE LET st2 == AppendEvent(st1,
                                       ReferencesEvent(NormalizeSources(result.sources)), TRUE)
                        IN IF st2.raised THEN st2 ELSE AppendDoneEvent(st2)

\* a materialisation without the early return for completed and failed jobs
MaterializeAgain(job, st0, o) ==
    IF job.status = "canceled" THEN [status |-> job.status, st |-> AppendDoneEvent(st0)]
    ELSE LET t == MaterializeTry(st0, o) IN
         IF ~t.raised THEN [status |-> "completed", st |-> t]
         ELSE [status |-> "failed",
               st |-> AppendDoneEvent(
                        AppendEvent([t EXCEPT !.raised = FALSE],
                                    ErrorEvent(JobFailedMessage), TRUE))]

\* ... and the whole method: new status and event lists of the job
Materialize(job, st0, o) ==
    IF job.status \in {"completed", "failed"} THEN [status |-> job.status, st |-> st0]
    ELSE IF job.status = "canceled" THEN [status |-> job.status, st |-> AppendDoneEvent(st0)]
    ELSE LET t == MaterializeTry(st0, o) IN
         IF ~t.raised THEN [status |-> "completed", st |-> t]
         ELSE [status |-> "failed",
               st |-> AppendDoneEvent(
                        AppendEvent([t EXCEPT !.raised = FALSE],
                                    ErrorEvent(JobFailedMessage), TRUE))]

\* RagJobService._drain_event_queue_into_memory
DrainEventQueue(st) ==
    IF ~rjsQueueSet THEN st
    ELSE [events |-> st.events \o st.queue, queue |-> <<>>, raised |-> st.raised]

RjsCreateJob(j) ==
    /\ rjsJobs[j].status = "absent"
    /\ rjsJobs' = [rjsJobs EXCEPT ![j] = [status |-> "queued", canceled |-> FALSE]]
    /\ rjsEvents' = [rjsEvents EXCEPT ![j] = <<>>]
    /\ UNCHANGED <<rjsGraphSet, rjsQueueSet, rjsQueue, rjsStream>>

\* stream_events for a job id that is not in self._jobs
RjsStreamUnknownJob(j) ==
    /\ rjsJobs[j].status = "absent"
    /\ rjsStream' = [rjsStream EXCEPT ![j] =
                        Some(<<ErrorEvent(<<"unknown", " ", "job_id">>), DoneEvent>>)]
    /\ UNCHANGED <<rjsGraphSet, rjsQueueSet, rjsJobs, rjsEvents, rjsQueue>>

\* stream_events for an existing job, with the outcome o of its collaborators
RjsStreamEventsOf(j, o) ==
    /\ rjsJobs[j].status # "absent"
    /\   LET st0 == [events |-> rjsEvents[j], queue |-> rjsQueue[j], raised |-> FALSE]
             m == Materialize(rjsJobs[j], st0, o)
             st == IF m.st.events = <<>> THEN DrainEventQueue(m.st) ELSE m.st
         IN /\ rjsJobs' = [rjsJobs EXCEPT ![j].status = m.status]
            /\ rjsEvents' = [rjsEvents EXCEPT ![j] = st.events]
            /\ rjsQueue' = [rjsQueue EXCEPT ![j] = st.queue]
            /\ rjsStream' = [rjsStream EXCEPT ![j] = Some(st.events)]
    /\ UNCHANGED <<rjsGraphSet, rjsQueueSet>>

RjsStreamEvents(j) == \E o \in MaterializeOutcomes : RjsStreamEventsOf(j, o)

RjsCancel(j) ==
    /\ rjsJobs[j].status \notin {"absent", "completed", "failed", "canceled"}
    /\ LET st0 == [events |-> rjsEvents[j], queue |-> rjsQueue[j], raised |-> FALSE]
           st == AppendDoneEvent(AppendEvent(st0, ErrorEvent(CanceledMessage), TRUE))
       IN /\ rjsEvents' = [rjsEvents EXCEPT ![j] = st.events]
          /\ rjsQueue' = [rjsQueue EXCEPT ![j] = st.queue]
    /\ rjsJobs' = [rjsJobs EXCEPT ![j] = [status |-> "canceled", canceled |-> TRUE]]
    /\ UNCHANGED <<rjsGraphSet, rjsQueueSet, rjsStream>>

RagInit ==
    /\ svcPc = "start"
    /\ svcResult = NoResult
    /\ svcPending = <<>>
    /\ svcIndex = 1
    /\ svcOut = <<>>
    /\ svcFailed = FALSE
    /\ rjsGraphSet \in BOOLEAN
    /\ rjsQueueSet \in BOOLEAN
    /\ rjsJobs = [j \in RagJobIds |-> [status |-> "absent", canceled |-> FALSE]]
    /\ rjsEvents = [j \in RagJobIds |-> <<>>]
    /\ rjsQueue = [j \in RagJobIds |-> <<>>]
    /\ rjsStream = [j \in RagJobIds |-> None]

\* the RAG services as the other specifications hold them: constructed with a
\* graph and an event queue, never called
RagIdle == RagInit /\ rjsGraphSet /\ rjsQueueSet

-----------------------------------------------------------------------------
(***************************************************************************)
(* secondsession ChatService / ChatWorker over one Redis: one job, one     *)
(* client (create_job, cancel), one worker and one stream_events consumer. *)
(* Every Redis command is one step.                                        *)
(***************************************************************************)
VARIABLES
    cwJobQueue,     \* Redis list chat:jobs
    cwStatus,       \* Redis key chat:status:{job_id} ("none": never written)
    cwCancel,       \* Redis key chat:cancel:{job_id} is set
    cwEvents,       \* Redis list chat:stream:{job_id}
    cwClientPc,     \* ChatService.create_job / cancel position
    cwPc,           \* ChatWorker position
    cwSeq,          \* _process_job's local seq
    cwResult,       \* what graph.run returned
    cwTokens,       \* tokens of _iter_tokens still to be pushed
    cwPushed,       \* history: every event the worker pushed for the job
    cwFlagAtDequeue,\* history: the cancel flag at the moment of dequeue
    cwObservedAt,   \* history: None, or Some(<<where, Len(cwPushed)>>) at the first
                    \*          cancel check that found the flag set
    cwProcessed,    \* history: _process_job has returned or raised
    cwExc,        \* str(exc) of the exception the try block caught (None: none)
    csPc,           \* ChatService.stream_events position
    csLastSeq,      \* stream_events' local last_seq
    csEvent,        \* the event just popped
    csCurrent,      \* _update_status_by_event's local current
    csOut           \* events yielded to the client

cwVars == <<cwJobQueue, cwStatus, cwCancel, cwEvents, cwClientPc, cwPc, cwSeq,
            cwResult, cwTokens, cwPushed, cwFlagAtDequeue, cwObservedAt, cwProcessed,
            cwExc>>
csVars == <<csPc, csLastSeq, csEvent, csCurrent, csOut>>

ChatJobId == "job-1"

\* secondsession ErrorCode: member name -> code
ErrorCodeValue ==
    [n \in {"VALIDATION", "TOOL", "RETRIEVAL_EMPTY", "TIMEOUT", "SAFEGUARD",
            "UNKNOWN", "HISTORY", "SUMMARY", "PARALLEL"} |->
        CASE n = "VALIDATION" -> "validation_error"
          [] n = "TOOL" -> "tool_error"
          [] n = "RETRIEVAL_EMPTY" -> "retrieval_empty"
          [] n = "TIMEOUT" -> "timeout"
          [] n = "SAFEGUARD" -> "safeguard_blocked"
          [] n = "UNKNOWN" -> "unknown_error"
          [] n = "HISTORY" -> "history_error"
          [] n = "SUMMARY" -> "summary_error"
          [] n = "PARALLEL" -> "parallel_error"]

\* attribute access ErrorCode.<name> succeeds (otherwise AttributeError)
HasErrorCode(name) == name \in DOMAIN ErrorCodeValue

\* ErrorCode.user_message: one fixed text per member
UserMessage(name) == <<"user message of", name>>

\* ChatWorker._error_message: the member's user message, or str(error_code)
ErrorMessage(code) ==
    IF \E n \in DOMAIN ErrorCodeValue : ErrorCodeValue[n] = code
    THEN UserMessage(CHOOSE n \in DOMAIN ErrorCodeValue : ErrorCodeValue[n] = code)
    ELSE <<code>>

\* str(exc) of what graph.run can raise, and of the AttributeError
GraphExceptionTexts == {<<"redis", " ", "connection", " ", "refused">>, <<"timeout">>}
AttributeErrorText == <<"type object ErrorCode has no attribute CANCELLED">>

TerminalStatuses == {"done", "failed", "cancelled"}

\* the events of _build_token_event, _build_error_event, _build_done_event and
\* _build_metadata_event: type, seq, content and, for errors, error_code
ChatEvent(t, seq, code, content) ==
    [type |-> t, seq |-> seq, error_code |-> code, content |-> content]

\* ChatWorker._iter_tokens
IterTokens(content) ==
    IF content = <<>> THEN <<>>
    ELSE LET tokens == FindAllTokens(content)
         IN IF tokens # <<>> THEN tokens ELSE <<content>>

\* ChatWorker._is_blocked_label
IsBlockedLabel(label) == IF IsNone(label) THEN FALSE ELSE label[1] # "PASS"

\* ChatWorker._resolve_error_code: value is None or Some(code string)
ResolveErrorCode(value, label) ==
    IF ~IsNone(value) THEN value
    ELSE IF IsBlockedLabel(label) THEN Some(ErrorCodeValue["SAFEGUARD"])
    ELSE None

\* results of ChatGraph.run as the worker reads them
ChatResult(msg, route, label, code) ==
    [last_assistant_message |-> msg, route |-> route,
     safeguard_label |-> label, error_code |-> code]

ChatResults ==
    { ChatResult(<<"a", " ", "b">>, Some("answer"), Some("PASS"), None),
      ChatResult(<<"blocked">>, Some("fallback"), Some("PII"), None),
      ChatResult(<<>>, None, None, Some("validation_error")),
      ChatResult(<<>>, None, None, None) }

NoChatResult == ChatResult(<<>>, None, None, None)

WorkerInit ==
    /\ cwJobQueue = <<>>
    /\ cwStatus = "none"
    /\ cwCancel = FALSE
    /\ cwEvents = <<>>
    /\ cwClientPc = "start"
    /\ cwPc = "poll"
    /\ cwSeq = 1
    /\ cwResult = NoChatResult
    /\ cwTokens = <<>>
    /\ cwPushed = <<>>
    /\ cwFlagAtDequeue = FALSE
    /\ cwObservedAt = None
    /\ cwProcessed = FALSE
    /\ cwExc = None
    /\ csPc = "poll"
    /\ csLastSeq = 0
    /\ csEvent = None
    /\ csCurrent = "none"
    /\ csOut = <<>>

\* ---- ChatService.create_job: enqueue, then write status "queued"
CreateJobEnqueue ==
    /\ cwClientPc = "start"
    /\ cwJobQueue' = Append(cwJobQueue, ChatJobId)
    /\ cwClientPc' = "enqueued"
    /\ UNCHANGED <<cwStatus, cwCancel, cwEvents, cwPc, cwSeq, cwResult, cwTokens,
                   cwPushed, cwFlagAtDequeue, cwObservedAt, cwProcessed, cwExc, csVars>>

CreateJobSetStatus ==
    /\ cwClientPc = "enqueued"
    /\ cwStatus' = "queued"
    /\ cwClientPc' = "created"
    /\ UNCHANGED <<cwJobQueue, cwCancel, cwEvents, cwPc, cwSeq, cwResult, cwTokens,
                   cwPushed, cwFlagAtDequeue, cwObservedAt, cwProcessed, cwExc, csVars>>

\* ---- ChatService.cancel: set the flag, then write status "cancelled"
CancelSetFlag ==
    /\ cwClientPc = "created"
    /\ cwCancel' = TRUE
    /\ cwClientPc' = "cancel_flagged"
    /\ UNCHANGED <<cwJobQueue, cwStatus, cwEvents, cwPc, cwSeq, cwResult, cwTokens,
                   cwPushed, cwFlagAtDequeue, cwObservedAt, cwProcessed, cwExc, csVars>>

CancelSetStatus ==
    /\ cwClientPc = "cancel_flagged"
    /\ cwStatus' = "cancelled"
    /\ cwClientPc' = "cancel_returned"
    /\ UNCHANGED <<cwJobQueue, cwCancel, cwEvents, cwPc, cwSeq, cwResult, cwTokens,
                   cwPushed, cwFlagAtDequeue, cwObservedAt, cwProcessed, cwExc, csVars>>

\* what every worker step leaves alone besides what it names
RaisingFrame == UNCHANGED <<cwJobQueue, cwCancel, cwClientPc, cwFlagAtDequeue, csVars>>
WorkerFrame == RaisingFrame /\ UNCHANGED cwExc

\* event_queue.push_event of the listed events, in order
PushAll(evs) ==
    /\ cwEvents' = cwEvents \o evs
    /\ cwPushed' = cwPushed \o evs

\* a cancel check of the worker found the flag set
Observe(where) ==
    cwObservedAt' = IF IsNone(cwObservedAt) THEN Some(<<where, Len(cwPushed)>>)
                    ELSE cwObservedAt

\* ---- ChatWorker._dequeue_job
WorkerDequeue ==
    /\ cwPc = "poll"
    /\ cwJobQueue # <<>>
    /\ cwJobQueue' = Tail(cwJobQueue)
    /\ cwFlagAtDequeue' = cwCancel
    /\ cwSeq' = 1
    /\ cwPc' = "check_pre"
    /\ UNCHANGED <<cwStatus, cwCancel, cwEvents, cwClientPc, cwResult, cwTokens,
                   cwPushed, cwObservedAt, cwProcessed, cwExc, csVars>>

\* ---- ChatWorker._process_job, line by line
WorkerCheckPre ==
    /\ cwPc = "check_pre"
    /\ IF cwCancel THEN cwPc' = "pre_cancelled" /\ Observe("pre")
                   ELSE cwPc' = "set_running" /\ UNCHANGED cwObservedAt
    /\ UNCHANGED <<cwStatus, cwEvents, cwSeq, cwResult, cwTokens, cwPushed, cwProcessed>>
    /\ WorkerFrame

\* the cancelled-before-start branch: it is outside the try block, so the
\* AttributeError of ErrorCode.CANCELLED leaves _process_job
WorkerPreCancelled ==
    /\ cwPc = "pre_cancelled"
    /\ cwStatus' = "cancelled"
    /\ IF HasErrorCode("CANCELLED")
       THEN /\ PushAll(<<ChatEvent("error", cwSeq, ErrorCodeValue["CANCELLED"], Some(UserMessage("CANCELLED"))),
                         ChatEvent("done", cwSeq + 1, "", None)>>)
            /\ cwSeq' = cwSeq + 1
            /\ cwPc' = "poll"
       ELSE /\ UNCHANGED <<cwEvents, cwPushed, cwSeq>>
            /\ cwPc' = "raised"
    /\ cwProcessed' = TRUE
    /\ UNCHANGED <<cwResult, cwTokens, cwObservedAt>>
    /\ WorkerFrame

WorkerSetRunning ==
    /\ cwPc = "set_running"
    /\ cwStatus' = "running"
    /\ cwPc' = "push_job_start"
    /\ UNCHANGED <<cwEvents, cwSeq, cwResult, cwTokens, cwPushed, cwObservedAt, cwProcessed>>
    /\ WorkerFrame

WorkerPushJobStart ==
    /\ cwPc = "push_job_start"
    /\ PushAll(<<ChatEvent("metadata", cwSeq, "", None)>>)
    /\ cwSeq' = cwSeq + 1
    /\ cwPc' = "graph"
    /\ UNCHANGED <<cwStatus, cwResult, cwTokens, cwObservedAt, cwProcessed>>
    /\ WorkerFrame

WorkerGraphReturns ==
    /\ cwPc = "graph"
    /\ \E r \in ChatResults : cwResult' = r
    /\ cwPc' = "check_post"
    /\ UNCHANGED <<cwStatus, cwEvents, cwSeq, cwTokens, cwPushed, cwObservedAt, cwProcessed>>
    /\ WorkerFrame

WorkerGraphRaises ==
    /\ cwPc = "graph"
    /\ cwPc' = "except"
    /\ \E text \in GraphExceptionTexts : cwExc' = Some(text)
    /\ UNCHANGED <<cwStatus, cwEvents, cwSeq, cwResult, cwTokens, cwPushed,
                   cwObservedAt, cwProcessed>>
    /\ RaisingFrame

WorkerCheckPost ==
    /\ cwPc = "check_post"
    /\ IF cwCancel THEN cwPc' = "post_cancelled" /\ Observe("post_graph")
                   ELSE cwPc' = "push_result" /\ UNCHANGED cwObservedAt
    /\ UNCHANGED <<cwStatus, cwEvents, cwSeq, cwResult, cwTokens, cwPushed, cwProcessed>>
    /\ WorkerFrame

\* inside the try block: the AttributeError is caught by except Exception
WorkerPostCancelled ==
    /\ cwPc = "post_cancelled"
    /\ cwStatus' = "cancelled"
    /\ IF HasErrorCode("CANCELLED")
       THEN /\ PushAll(<<ChatEvent("error", cwSeq, ErrorCodeValue["CANCELLED"], Some(UserMessage("CANCELLED")))>>)
            /\ cwSeq' = cwSeq + 1
            /\ cwPc' = "finally"
            /\ UNCHANGED cwExc
       ELSE /\ UNCHANGED <<cwEvents, cwPushed, cwSeq>>
            /\ cwPc' = "except"
            /\ cwExc' = Some(AttributeErrorText)
    /\ UNCHANGED <<cwResult, cwTokens, cwObservedAt, cwProcessed>>
    /\ RaisingFrame

\* the error event of the resolved error code and the ROUTE_DECISION metadata
WorkerPushResult ==
    /\ cwPc = "push_result"
    /\ LET code == ResolveErrorCode(cwResult.error_code, cwResult.safeguard_label)
           errs == IF IsNone(code) THEN <<>> ELSE <<ChatEvent("error", cwSeq, code[1], Some(ErrorMessage(code[1])))>>
           meta == IF IsNone(cwResult.route) /\ IsNone(cwResult.safeguard_label) /\ IsNone(code)
                   THEN <<>> ELSE <<ChatEvent("metadata", cwSeq + Len(errs), "", None)>>
       IN /\ PushAll(errs \o meta)
          /\ cwSeq' = cwSeq + Len(errs) + Len(meta)
    /\ cwTokens' = IterTokens(cwResult.last_assistant_message)
    /\ cwPc' = "tokens"
    /\ UNCHANGED <<cwStatus, cwResult, cwObservedAt, cwProcessed>>
    /\ WorkerFrame

\* ChatWorker._should_cancel: the flag check ...
WorkerCheckToken ==
    /\ cwPc = "tokens"
    /\ cwTokens # <<>>
    /\ IF cwCancel THEN cwPc' = "token_cancelled" /\ Observe("token")
                   ELSE cwPc' = "push_token" /\ UNCHANGED cwObservedAt
    /\ UNCHANGED <<cwStatus, cwEvents, cwSeq, cwResult, cwTokens, cwPushed, cwProcessed>>
    /\ WorkerFrame

\* ... and its cancelled branch (the caller does not advance seq)
WorkerTokenCancelled ==
    /\ cwPc = "token_cancelled"
    /\ cwStatus' = "cancelled"
    /\ IF HasErrorCode("CANCELLED")
       THEN /\ PushAll(<<ChatEvent("error", cwSeq, ErrorCodeValue["CANCELLED"], Some(UserMessage("CANCELLED")))>>)
            /\ cwPc' = "finally"
            /\ UNCHANGED cwExc
       ELSE /\ UNCHANGED <<cwEvents, cwPushed>>
            /\ cwPc' = "except"
            /\ cwExc' = Some(AttributeErrorText)
    /\ UNCHANGED <<cwSeq, cwResult, cwTokens, cwObservedAt, cwProcessed>>
    /\ RaisingFrame

WorkerPushToken ==
    /\ cwPc = "push_token"
    /\ PushAll(<<ChatEvent("token", cwSeq, "", Some(Head(cwTokens)))>>)
    /\ cwSeq' = cwSeq + 1
    /\ cwTokens' = Tail(cwTokens)
    /\ cwPc' = "tokens"
    /\ UNCHANGED <<cwStatus, cwResult, cwObservedAt, cwProcessed>>
    /\ WorkerFrame

WorkerPushJobEnd ==
    /\ cwPc = "tokens"
    /\ cwTokens = <<>>
    /\ PushAll(<<ChatEvent("metadata", cwSeq, "", None)>>)
    /\ cwSeq' = cwSeq + 1
    /\ cwPc' = "set_done"
    /\ UNCHANGED <<cwStatus, cwResult, cwTokens, cwObservedAt, cwProcessed>>
    /\ WorkerFrame

WorkerSetDone ==
    /\ cwPc = "set_done"
    /\ cwStatus' = "done"
    /\ cwPc' = "finally"
    /\ UNCHANGED <<cwEvents, cwSeq, cwResult, cwTokens, cwPushed, cwObservedAt, cwProcessed>>
    /\ WorkerFrame

WorkerExceptSetStatus ==
    /\ cwPc = "except"
    /\ cwStatus' = "failed"
    /\ cwPc' = "except_push"
    /\ UNCHANGED <<cwEvents, cwSeq, cwResult, cwTokens, cwPushed, cwObservedAt, cwProcessed>>
    /\ WorkerFrame

\* an except branch that does not advance seq after its error event
WorkerExceptPushErrorSameSeq ==
    /\ cwPc = "except_push"
    /\ PushAll(<<ChatEvent("error", cwSeq, ErrorCodeValue["UNKNOWN"], cwExc)>>)
    /\ cwPc' = "finally"
    /\ UNCHANGED <<cwSeq, cwStatus, cwResult, cwTokens, cwObservedAt, cwProcessed>>
    /\ WorkerFrame

WorkerExceptPushError ==
    /\ cwPc = "except_push"
    /\ PushAll(<<ChatEvent("error", cwSeq, ErrorCodeValue["UNKNOWN"], cwExc)>>)
    /\ cwSeq' = cwSeq + 1
    /\ cwPc' = "finally"
    /\ UNCHANGED <<cwStatus, cwResult, cwTokens, cwObservedAt, cwProcessed>>
    /\ WorkerFrame

WorkerFinally ==
    /\ cwPc = "finally"
    /\ PushAll(<<ChatEvent("done", cwSeq, "", None)>>)
    /\ cwProcessed' = TRUE
    /\ cwPc' = "poll"
    /\ UNCHANGED <<cwStatus, cwSeq, cwResult, cwTokens, cwObservedAt>>
    /\ WorkerFrame

\* ---- ChatService.stream_events
ConsumerPop ==
    /\ csPc = "poll"
    /\ cwClientPc \notin {"start", "enqueued"}
    /\ cwEvents # <<>>
    /\ cwEvents' = Tail(cwEvents)
    /\ IF Head(cwEvents).seq <= csLastSeq
       THEN UNCHANGED <<csPc, csLastSeq, csEvent>>
       ELSE /\ csLastSeq' = Head(cwEvents).seq
            /\ csEvent' = Some(Head(cwEvents))
            /\ csPc' = "read_status"
    /\ UNCHANGED <<cwJobQueue, cwStatus, cwCancel, cwClientPc, cwPc, cwSeq, cwResult,
                   cwTokens, cwPushed, cwFlagAtDequeue, cwObservedAt, cwProcessed, cwExc,
                   csCurrent, csOut>>

\* ChatService._update_status_by_event: the read ...
ConsumerReadStatus ==
    /\ csPc = "read_status"
    /\ csCurrent' = cwStatus
    /\ csPc' = "write_status"
    /\ UNCHANGED <<cwVars, csLastSeq, csEvent, csOut>>

\* ... the write, and the yield of the SSE line
ConsumerWriteStatus ==
    /\ csPc = "write_status"
    /\ cwStatus' = IF csCurrent \in TerminalStatuses THEN cwStatus
                   ELSE IF csEvent[1].type = "error" THEN "failed"
                   ELSE IF csEvent[1].type = "done" THEN "done"
                   ELSE cwStatus
    /\ csOut' = Append(csOut, csEvent[1])
    /\ csPc' = IF csEvent[1].type = "done" THEN "closed" ELSE "poll"
    /\ UNCHANGED <<cwJobQueue, cwCancel, cwEvents, cwClientPc, cwPc, cwSeq, cwResult,
                   cwTokens, cwPushed, cwFlagAtDequeue, cwObservedAt, cwProcessed, cwExc,
                   csLastSeq, csEvent, csCurrent>>

-----------------------------------------------------------------------------
(***************************************************************************)
(* The job queues: secondsession ChatJobQueue, thirdsession ChatJobQueue   *)
(* and fourthsession RedisJobQueue, polled by concurrent workers.  rpush,  *)
(* lpop, deque.append and deque.popleft are single atomic steps.           *)
(***************************************************************************)
VARIABLES
    jqList,      \* queue name -> the backing list of serialized payloads
    jqNextId,    \* the next fresh job id (uuid4 in the services)
    jqHeld,      \* worker -> what its last dequeue / pop_job call returned
    jqReturns    \* history: job id -> number of dequeue calls that returned it

jqVars == <<jqList, jqNextId, jqHeld, jqReturns>>

MaxJobs == 3
JobQueueNames == {"second", "third", "fourth"}
QueueWorkers == {"w1", "w2"}
RequiredKeys == {"job_id", "trace_id", "thread_id", "query"}

\* json.dumps of a dict (job payload or event): its key/value pairs in key order
Dumps(payload) ==
    LET order == <<"job_id", "query", "thread_id", "trace_id",
                   "type", "status", "content", "index", "items">>
        present == SelectSeq(order, LAMBDA k : k \in DOMAIN payload)
    IN [i \in 1..Len(present) |-> <<present[i], payload[present[i]]>>]

\* json.loads of such a text
Loads(raw) ==
    [k \in {raw[i][1] : i \in 1..Len(raw)} |->
        raw[CHOOSE i \in 1..Len(raw) : raw[i][1] = k][2]]

\* the payloads a producer submits for job id: complete, or without query
JobPayloads(id) ==
    { [job_id |-> id, trace_id |-> "trace", thread_id |-> "thread", query |-> "q"],
      [job_id |-> id, trace_id |-> "trace", thread_id |-> "thread"] }

LPopKeep(list) == [value |-> Head(list), rest |-> list]

\* Redis LPOP / deque.popleft on a non-empty list
LPop(list) == [value |-> Head(list), rest |-> Tail(list)]

QueueInit ==
    /\ jqList = [q \in JobQueueNames |-> <<>>]
    /\ jqNextId = 1
    /\ jqHeld = [w \in QueueWorkers |-> None]
    /\ jqReturns = [id \in {} |-> 0]

\* ChatJobQueue.enqueue (secondsession) and ChatJobQueue.push_job (thirdsession):
\* a payload without a required key raises ValueError and nothing is stored
EnqueueValidated(q, payload) ==
    /\ q \in {"second", "third"}
    /\ jqNextId <= MaxJobs
    /\ jqNextId' = jqNextId + 1
    /\ jqList' = IF RequiredKeys \subseteq DOMAIN payload
                 THEN [jqList EXCEPT ![q] = Append(@, Dumps(payload))]
                 ELSE jqList
    /\ UNCHANGED <<jqHeld, jqReturns>>

\* RedisJobQueue.enqueue (fourthsession): no validation
EnqueueFourth(payload) ==
    /\ jqNextId <= MaxJobs
    /\ jqNextId' = jqNextId + 1
    /\ jqList' = [jqList EXCEPT !["fourth"] = Append(@, Dumps(payload))]
    /\ UNCHANGED <<jqHeld, jqReturns>>

\* one more dequeue call returned the job of this payload
CountReturn(data) ==
    LET id == data["job_id"] IN
    IF id \in DOMAIN jqReturns THEN [jqReturns EXCEPT ![id] = @ + 1]
    ELSE [i \in DOMAIN jqReturns \cup {id} |-> IF i = id THEN 1 ELSE jqReturns[i]]

\* ChatJobQueue.dequeue (secondsession) and ChatJobQueue.pop_job (thirdsession)
DequeueValidated(q, w) ==
    /\ q \in {"second", "third"}
    /\ IF jqList[q] = <<>>
       THEN /\ jqHeld' = [jqHeld EXCEPT ![w] = None]
            /\ UNCHANGED <<jqList, jqReturns>>
       ELSE LET popped == LPop(jqList[q])
                data == Loads(popped.value)
            IN /\ jqList' = [jqList EXCEPT ![q] = popped.rest]
               /\ IF RequiredKeys \subseteq DOMAIN data
                  THEN /\ jqHeld' = [jqHeld EXCEPT ![w] = Some(data)]
                       /\ jqReturns' = CountReturn(data)
                  ELSE /\ jqHeld' = [jqHeld EXCEPT ![w] = None]
                       /\ UNCHANGED jqReturns
    /\ UNCHANGED jqNextId

\* RedisJobQueue.dequeue (fourthsession)
DequeueFourth(w) ==
    /\ IF jqList["fourth"] = <<>>
       THEN /\ jqHeld' = [jqHeld EXCEPT ![w] = None]
            /\ UNCHANGED <<jqList, jqReturns>>
       ELSE LET popped == LPop(jqList["fourth"])
                data == Loads(popped.value)
            IN /\ jqList' = [jqList EXCEPT !["fourth"] = popped.rest]
               /\ jqHeld' = [jqHeld EXCEPT ![w] = Some(data)]
               /\ jqReturns' = CountReturn(data)
    /\ UNCHANGED jqNextId

-----------------------------------------------------------------------------
(***************************************************************************)
(* thirdsession ChatStreamEventQueue: per-job event lists in the in-memory *)
(* store or in Redis, pushed and popped by concurrent producers/consumers. *)
(***************************************************************************)
VARIABLES
    eqBackend,   \* "memory": self._backend is None; "redis": a Redis client
    eqStore,     \* key -> list of serialized events
    eqTtl,       \* Redis keys that carry a time-to-live
    eqCount,     \* number of push_event calls so far
    eqPushed,    \* history: job id -> events push_event accepted, in order
    eqPopped,    \* history: job id -> events pop_event returned, in order
    eqLive       \* history: eqPushed without the events Redis expired

eqVars == <<eqBackend, eqStore, eqTtl, eqCount, eqPushed, eqPopped, eqLive>>

MaxPushes == 3
EventJobIds == {"job-a", "job-b"}
KeyPrefix == "chat:stream"

KeyOfPrefix(job_id) == <<KeyPrefix, ":">>

\* ChatStreamEventQueue._key: f"{key_prefix}:{job_id}"
Key(job_id) == <<KeyPrefix, ":", job_id>>

\* the list stored under key (defaultdict(deque) / a missing Redis key: empty)
Stored(key) == IF key \in DOMAIN eqStore THEN eqStore[key] ELSE <<>>

\* the store with the list under key replaced
StoreWith(key, list) ==
    [k \in DOMAIN eqStore \cup {key} |-> IF k = key THEN list ELSE eqStore[k]]

\* JobStreamResponse.model_dump(exclude_none=True)
ModelDump(e) ==
    [k \in {"type"} \cup {f \in {"status", "content", "index", "items"} : ~IsNone(e[f])} |->
        IF k = "type" THEN e.type ELSE e[k][1]]

\* the events a producer hands to push_event as its n-th push for job_id;
\* the last one has no status and is rejected by _validate_event
EventInputs(job_id, n) ==
    { TokenEvent(<<job_id, "#">>, n), TokenEndEvent, DoneEvent,
      Event("token", None, Some(<<job_id>>), Some(n), None) }

\* events of every type, well-formed and ill-formed, for the n-th push
SchemaInputs(job_id, n) ==
    { TokenEvent(<<job_id, "#">>, n),
      Event("token", Some("in_progress"), None, Some(n), None),
      Event("token", Some("end"), Some(<<>>), None, Some(<<>>)),
      ReferencesEvent(<<job_id>>),
      Event("references", Some("end"), None, Some(n), Some(<<job_id>>)),
      Event("references", Some("end"), Some(<<job_id>>), None, Some(<<>>)),
      Event("references", Some("in_progress"), None, None, Some(<<>>)),
      ErrorEvent(<<job_id>>),
      ErrorEvent(<<" ">>),
      DoneEvent,
      Event("DONE", Some("end"), None, None, None),
      Event("other", None, None, None, None) }

EventQueueInit ==
    /\ eqBackend \in {"memory", "redis"}
    /\ eqStore = [k \in {} |-> <<>>]
    /\ eqTtl = {}
    /\ eqCount = 0
    /\ eqPushed = [j \in EventJobIds |-> <<>>]
    /\ eqPopped = [j \in EventJobIds |-> <<>>]
    /\ eqLive = [j \in EventJobIds |-> <<>>]

\* the queue as the other specifications hold it
EventQueueIdle == EventQueueInit /\ eqBackend = "memory"

\* ChatStreamEventQueue.push_event
PushEvent(job_id, e) ==
    /\ eqCount < MaxPushes
    /\ eqCount' = eqCount + 1
    /\ IF ~ValidQueueEvent(e)
       THEN UNCHANGED <<eqStore, eqTtl, eqPushed, eqLive>>
       ELSE LET key == Key(job_id)
                event == ModelDump(e)
            IN /\ eqStore' = StoreWith(key, Append(Stored(key), Dumps(event)))
               /\ eqTtl' = IF eqBackend = "redis" /\ NormalizeEventType(e.type) = "DONE"
                           THEN eqTtl \cup {key} ELSE eqTtl
               /\ eqPushed' = [eqPushed EXCEPT ![job_id] = Append(@, event)]
               /\ eqLive' = [eqLive EXCEPT ![job_id] = Append(@, event)]
    /\ UNCHANGED <<eqBackend, eqPopped>>

\* ChatStreamEventQueue.pop_event (Redis removes a list that becomes empty)
PopEvent(job_id) ==
    LET key == Key(job_id) IN
    /\ Stored(key) # <<>>
    /\ LET popped == LPop(Stored(key))
       IN /\ eqStore' = StoreWith(key, popped.rest)
          /\ eqTtl' = IF popped.rest = <<>> THEN eqTtl \ {key} ELSE eqTtl
          /\ eqPopped' = [eqPopped EXCEPT ![job_id] = Append(@, Loads(popped.value))]
    /\ UNCHANGED <<eqBackend, eqCount, eqPushed, eqLive>>

\* Redis drops a list whose time-to-live (set on DONE) has run out
ExpireKey(job_id) ==
    LET key == Key(job_id) IN
    /\ key \in eqTtl
    /\ eqStore' = StoreWith(key, <<>>)
    /\ eqTtl' = eqTtl \ {key}
    /\ eqLive' = [j \in EventJobIds |->
                    IF Key(j) = key
                    THEN SubSeq(eqLive[j], 1, Len(eqLive[j]) - Len(Stored(key)))
                    ELSE eqLive[j]]
    /\ UNCHANGED <<eqBackend, eqCount, eqPushed, eqPopped>>

-----------------------------------------------------------------------------
(* thirdsession RagPipelineGraph: safeguard -> retrieve -> policy_filter -> *)
(* normalize -> merge -> postprocess -> generate -> (summary) -> END.       *)
(* Questions and document contents are sequences of word/character atoms;  *)
(* Korean literals of the source are written as ASCII stand-ins.           *)
VARIABLES
    plPc,        \* "idle", the node about to run, "END", "returned" or "raised"
    plState,     \* the ChatState threaded through the compiled graph
    plTrace,     \* nodes entered so far in this run, in order ("END" included)
    plGenCalls,  \* calls of AnswerGenerationNode.run made in this run
    plSetCode,   \* the error_code the first node to set one wrote (None: none yet)
    plRetrieved, \* the contexts the retrieve node of this run returned
    plInput      \* the state run was called with

plVars == <<plPc, plState, plTrace, plGenCalls, plSetCode, plRetrieved, plInput>>

SafeguardLabel == {"PASS", "PII", "HARMFUL", "PROMPT_INJECTION"}

\* ErrorCode members: (code, user_message); every member has its own message
RagErrorCode ==
    [VALIDATION |-> [code |-> "validation_error", user_message |-> "MSG_VALIDATION"],
     TIMEOUT |-> [code |-> "timeout", user_message |-> "MSG_TIMEOUT"],
     RETRIEVAL_EMPTY |-> [code |-> "retrieval_empty", user_message |-> "MSG_RETRIEVAL_EMPTY"],
     RETRIEVAL_FAILED |-> [code |-> "retrieval_failed", user_message |-> "MSG_RETRIEVAL_FAILED"],
     POSTPROCESS_FAILED |-> [code |-> "postprocess_failed", user_message |-> "MSG_POSTPROCESS_FAILED"],
     LLM_FAILED |-> [code |-> "llm_failed", user_message |-> "MSG_LLM_FAILED"],
     MODEL_OUTPUT_INVALID |-> [code |-> "model_output_invalid", user_message |-> "MSG_MODEL_OUTPUT_INVALID"],
     TOOL |-> [code |-> "tool_error", user_message |-> "MSG_TOOL"],
     QUEUE_FAILED |-> [code |-> "queue_failed", user_message |-> "MSG_QUEUE_FAILED"],
     STREAM_FAILED |-> [code |-> "stream_failed", user_message |-> "MSG_STREAM_FAILED"],
     REDIS_FAILED |-> [code |-> "redis_failed", user_message |-> "MSG_REDIS_FAILED"],
     SAFEGUARD |-> [code |-> "safeguard_blocked", user_message |-> "MSG_SAFEGUARD"],
     PROMPT_INJECTION |-> [code |-> "prompt_injection_blocked", user_message |-> "MSG_PROMPT_INJECTION"],
     PII |-> [code |-> "pii_blocked", user_message |-> "MSG_PII"],
     HARMFUL |-> [code |-> "harmful_blocked", user_message |-> "MSG_HARMFUL"],
     UNKNOWN |-> [code |-> "unknown_error", user_message |-> "MSG_UNKNOWN"]]

\* ErrorCode.from_code: None or an unknown code gives UNKNOWN (the codes that
\* reach it are ErrorCode.code values, which strip().lower() leaves as they are)
FromCode(code) ==
    IF code = None THEN "UNKNOWN"
    ELSE IF \E m \in DOMAIN RagErrorCode : RagErrorCode[m].code = code[1]
         THEN CHOOSE m \in DOMAIN RagErrorCode : RagErrorCode[m].code = code[1]
         ELSE "UNKNOWN"

\* ErrorCode.from_exception; error = [type, words]: the exception class and
\* the keywords its lower-cased message contains
FromException(error) ==
    IF error.type = "TimeoutError" \/ "timeout" \in error.words THEN "TIMEOUT"
    ELSE IF error.type = "ValueError" THEN "VALIDATION"
    ELSE IF "redis" \in error.words THEN "REDIS_FAILED"
    ELSE IF "queue" \in error.words THEN "QUEUE_FAILED"
    ELSE IF "stream" \in error.words THEN "STREAM_FAILED"
    ELSE IF "retriev" \in error.words \/ "search" \in error.words THEN "RETRIEVAL_FAILED"
    ELSE IF "llm" \in error.words \/ "model" \in error.words THEN "LLM_FAILED"
    ELSE "UNKNOWN"

\* FallbackNode.run(error_code): the fixed user message of the error kind
FallbackNodeRun(error_code) == <<RagErrorCode[error_code].user_message>>

HasAny(question, keywords) == \E i \in 1..Len(question) : question[i] \in keywords

\* SafeguardNode._classify_by_rules: PII patterns, then harmful keywords,
\* then injection keywords ("poktan" = the bomb keyword, "haeking" = hacking)
ClassifyByRules(question) ==
    IF HasAny(question, {"010-1234-5678", "a@b.com"}) THEN "PII"
    ELSE IF HasAny(question, {"poktan", "haeking"}) THEN "HARMFUL"
    ELSE IF HasAny(question, {"jailbreak", "system prompt"}) THEN "PROMPT_INJECTION"
    ELSE "PASS"

\* SafeguardNode.run without an llm client (the pipeline constructs it so)
SafeguardNodeRun(question) ==
    LET normalized_question == Strip(question)
    IN IF normalized_question = <<>> THEN "PASS" ELSE ClassifyByRules(normalized_question)

\* RagPipelineGraph._fallback_safeguard ("bimilbeonho" = the password keyword)
FallbackSafeguard(question) ==
    IF HasAny(question, {"bimilbeonho", "poktan"}) THEN "HARMFUL" ELSE "PASS"

\* _node_safeguard; outcome: what SafeguardNode.run did
NodeSafeguard(state, outcome) ==
    LET safeguard_label ==
            CASE outcome = "ok" -> SafeguardNodeRun(state.question)
              [] outcome = "NotImplementedError" -> FallbackSafeguard(state.question)
              [] OTHER -> "PASS"
    IN [state EXCEPT !.safeguard_label = Some(safeguard_label)]

(* Documents as the retrievers return them: dicts with source_id, doc_id,  *)
(* content, score (thousandths; None: not a number), score_type, and the  *)
(* metadata entries access_level and language.                             *)
Doc(sid, did, content, score, stype, access, lang) ==
    [source_id |-> sid, doc_id |-> did, content |-> content, score |-> score,
     score_type |-> stype, access_level |-> access, language |-> lang]

DocA == Doc(Some("s1"), None, <<"a", " ", " ", "b">>, Some(800), "similarity", None, Some("ko"))
DocB == Doc(Some("s1"), Some("x"), <<"c">>, Some(250), "distance", Some("public"), None)
DocC == Doc(None, Some("d3"), <<"e">>, None, "similarity", Some("private"), None)
DocD == Doc(Some("s4"), None, <<" ">>, Some(900), "similarity", None, Some("en"))
DocE == Doc(None, Some("d5"), <<"f", " ">>, Some(-500), "distance", None, Some("en"))

QueryDocLists == {<<>>, <<DocA, DocC>>, <<DocD>>, <<DocE, DocA>>}
HydeDocLists == {<<>>, <<DocB>>, <<DocC, DocE>>}

RetrieveErrors ==
    {[type |-> "TimeoutError", words |-> {}],
     [type |-> "ValueError", words |-> {"search"}],
     [type |-> "RuntimeError", words |-> {"search"}],
     [type |-> "RuntimeError", words |-> {}]}

\* _node_retrieve; outcome: the two strategy graphs returned, or one raised
NodeRetrieve(state, outcome) ==
    IF outcome.kind = "raise"
    THEN [state EXCEPT !.contexts = <<>>, !.route = Some("retrieve_failed"),
                       !.error_code = Some(RagErrorCode[FromException(outcome.error)].code)]
    ELSE [state EXCEPT !.contexts = outcome.query_docs \o outcome.hyde_docs,
                       !.route = Some("query_decompose+adaptive_hyde")]

\* the documents docs[i] for which keep[i] holds, in order
SelectDocs(docs, keep) ==
    LET F[i \in 0..Len(docs)] ==
            IF i = 0 THEN <<>>
            ELSE IF keep[i] THEN Append(F[i - 1], docs[i]) ELSE F[i - 1]
    IN F[Len(docs)]

\* metadata values arrive as JSON: only strings and numbers can be set members
Hashable(json) == json.kind \in {"str", "int"}

\* an access check that lets every access level through
PassesAnyAccessLevel(doc) == TRUE
\* _node_policy_filter: access_level not in {None, "public"} drops the doc
PassesAccess(doc) == doc.access_level \in {None, Some("public")}

\* _node_policy_filter builds the set {None, allowed_language} for every doc
\* that passed the access check: a list or dict language raises TypeError
PolicyFilterRaises(state) ==
    /\ state.language # None
    /\ ~Hashable(state.language[1])
    /\ \E i \in 1..Len(state.contexts) : PassesAccess(state.contexts[i])

NodePolicyFilter(state) ==
    LET allowed_language == state.language
        Keep(doc) ==
            /\ PassesAccess(doc)
            /\ ~(allowed_language # None
                 /\ doc.language \notin {None, Some(allowed_language[1].v)})
    IN [state EXCEPT !.contexts =
            SelectDocs(state.contexts,
                       [i \in 1..Len(state.contexts) |-> Keep(state.contexts[i])])]

\* 1.0 in thousandths
ScoreScale == 1000

Max2(a, b) == IF a >= b THEN a ELSE b

\* _node_normalize: distance -> 1 / (1 + max(score, 0)); not a number -> 0.0
NormalizeDoc(doc) ==
    LET score == IF doc.score = None THEN 0
                 ELSE IF doc.score_type = "distance"
                      THEN (ScoreScale * ScoreScale) \div (ScoreScale + Max2(doc.score[1], 0))
                      ELSE doc.score[1]
    IN [doc EXCEPT !.score = Some(score), !.score_type = "similarity"]

NodeNormalize(state) ==
    [state EXCEPT !.contexts = [i \in 1..Len(state.contexts) |-> NormalizeDoc(state.contexts[i])]]

\* source_id or doc_id or content, as _node_merge and _fallback_postprocess key
MergeKey(doc) ==
    IF doc.source_id # None THEN doc.source_id[1]
    ELSE IF doc.doc_id # None THEN doc.doc_id[1] ELSE doc.content

MergeKeys(docs) == [i \in 1..Len(docs) |-> MergeKey(docs[i])]

\* keep the first document of every key; keys[i] is the key of docs[i]
Dedupe(docs, keys) ==
    LET F[i \in 0..Len(docs)] ==
            IF i = 0 THEN <<>>
            ELSE IF \E j \in 1..(i - 1) : keys[j] = keys[i]
                 THEN F[i - 1] ELSE Append(F[i - 1], docs[i])
    IN F[Len(docs)]

RECURSIVE InsertByScore(_, _)
InsertByScore(sorted, doc) ==
    IF sorted = <<>> THEN <<doc>>
    ELSE IF Head(sorted).score[1] >= doc.score[1]
         THEN <<Head(sorted)>> \o InsertByScore(Tail(sorted), doc)
         ELSE <<doc>> \o sorted

\* sort(key=score, reverse=True): stable, ties keep their order
SortByScoreDesc(docs) ==
    LET F[i \in 0..Len(docs)] ==
            IF i = 0 THEN <<>> ELSE InsertByScore(F[i - 1], docs[i])
    IN F[Len(docs)]

NodeMerge(state) ==
    [state EXCEPT !.contexts = SortByScoreDesc(Dedupe(state.contexts, MergeKeys(state.contexts)))]

\* PostprocessNode defaults: top_k, max_per_source, max_chars_per_doc
TopK == 5
MaxPerSource == 2
MaxCharsPerDoc == 500

Take(s, n) == SubSeq(s, 1, IF Len(s) < n THEN Len(s) ELSE n)

\* " ".join(s.split())
JoinSplit(s) ==
    LET words == FindAllTokens(s)
        F[i \in 0..Len(words)] ==
            IF i = 0 THEN <<>>
            ELSE IF i = 1 THEN Strip(words[1])
            ELSE F[i - 1] \o <<" ">> \o Strip(words[i])
    IN F[Len(words)]

\* PostprocessNode._doc_key
DocKey(doc) ==
    IF doc.source_id # None THEN <<"source:", doc.source_id[1]>>
    ELSE IF doc.doc_id # None THEN <<"doc:", doc.doc_id[1]>>
    ELSE <<"content:", doc.content>>

\* PostprocessNode._diversify: by score, at most max_per_source per source_id
Diversify(docs) ==
    LET sorted == SortByScoreDesc(docs)
        SourceOf(doc) == IF doc.source_id # None /\ doc.source_id[1] # ""
                         THEN doc.source_id[1] ELSE "unknown"
        F[i \in 0..Len(sorted)] ==
            IF i = 0 THEN <<>>
            ELSE IF Cardinality({j \in 1..Len(F[i - 1]) :
                                    SourceOf(F[i - 1][j]) = SourceOf(sorted[i])}) >= MaxPerSource
                 THEN F[i - 1] ELSE Append(F[i - 1], sorted[i])
    IN F[Len(sorted)]

\* PostprocessNode._compress_doc
CompressDoc(doc) == [doc EXCEPT !.content = Take(JoinSplit(doc.content), MaxCharsPerDoc)]

\* PostprocessNode.run: dedupe, diversify, rerank, compress, top_k
PostprocessNodeRun(docs) ==
    LET reranked == SortByScoreDesc(Diversify(Dedupe(docs, [i \in 1..Len(docs) |-> DocKey(docs[i])])))
    IN Take([i \in 1..Len(reranked) |-> CompressDoc(reranked[i])], TopK)

\* _fallback_postprocess: dedupe by merge key, sort, first five
FallbackPostprocess(docs) == Take(SortByScoreDesc(Dedupe(docs, MergeKeys(docs))), 5)

\* _node_postprocess; outcome: PostprocessNode.run returned or raised
NodePostprocess(state, outcome) ==
    [state EXCEPT !.contexts = IF outcome = "ok" THEN PostprocessNodeRun(state.contexts)
                               ELSE FallbackPostprocess(state.contexts)]

LlmAnswer == <<"generated", " ", "answer">>
GroundedAnswer(question) == <<"question:">> \o question \o <<"grounded", "summary">>

\* AnswerGenerationNode.run; llm: "none" (no client), "ok", "empty", "raise".
\* Returns (answer, used_llm); every text blank gives ("", False).
AnswerGenerationNodeRun(question, contexts, llm) ==
    IF \A i \in 1..Len(contexts) : Strip(contexts[i].content) = <<>>
    THEN [answer |-> <<>>, used_llm |-> FALSE]
    ELSE IF llm = "ok" THEN [answer |-> JoinSplit(LlmAnswer), used_llm |-> TRUE]
    ELSE [answer |-> IF \E i \in 1..Len(Take(contexts, 3)) : Strip(contexts[i].content) # <<>>
                     THEN GroundedAnswer(question) ELSE <<"no", "evidence">>,
          used_llm |-> FALSE]

\* _to_source_item
ToSourceItem(doc, index) ==
    [source_id |-> IF doc.source_id # None THEN doc.source_id[1]
                   ELSE IF doc.doc_id # None THEN doc.doc_id[1] ELSE <<"source-", index>>,
     snippet |-> Take(doc.content, 300), score |-> doc.score,
     access_level |-> doc.access_level, language |-> doc.language]

\* ChatState reducers of history and turn_count
AddHistory(existing, incoming) == existing \o incoming
AddTurn(existing, incoming) == existing + incoming

\* the labels _node_generate answers with the blocked template
BlockedLabelsWithoutInjection == {"PII", "HARMFUL"}
BlockedLabels == {"PII", "HARMFUL", "PROMPT_INJECTION"}

\* the ErrorCode member _node_generate picks for a blocked label
BlockedErrorCode(safeguard_label) ==
    IF safeguard_label = "PII" THEN "PII"
    ELSE IF safeguard_label = "HARMFUL" THEN "HARMFUL" ELSE "PROMPT_INJECTION"

\* which branch of _node_generate the state takes
GenerateBranch(state) ==
    IF state.safeguard_label # None /\ state.safeguard_label[1] \in BlockedLabels THEN "blocked"
    ELSE IF Len(state.contexts) = 0 THEN "empty"
    ELSE "generate"

GenerateUpdate(state, answer, sources, error_code, retrieved) ==
    [state EXCEPT !.answer = Some(answer), !.sources = sources, !.error_code = error_code,
                  !.retrieval_stats = Some([retrieved |-> retrieved, used |-> Len(sources)]),
                  !.history = AddHistory(@, <<[role |-> "user", content |-> state.question],
                                              [role |-> "assistant", content |-> answer]>>),
                  !.turn_count = AddTurn(@, 1)]

\* a fallback return dict without the history and turn_count entries
GenerateFallbackWithoutTurn(state, error_code, retrieved) ==
    [state EXCEPT !.answer = Some(FallbackNodeRun(error_code)), !.sources = <<>>,
                  !.error_code = Some(RagErrorCode[error_code].code),
                  !.retrieval_stats = Some([retrieved |-> retrieved, used |-> 0])]
\* the fallback return dict of _node_generate for one error code
GenerateFallback(state, error_code, retrieved) ==
    GenerateUpdate(state, FallbackNodeRun(error_code), <<>>,
                   Some(RagErrorCode[error_code].code), retrieved)

\* the empty-contexts branch when it ignores the code the state carries
EmptyContextsCodeIgnoringState(state) == "RETRIEVAL_EMPTY"
\* the error code of the empty-contexts branch of _node_generate
EmptyContextsCode(state) ==
    IF state.error_code # None /\ state.error_code[1] # ""
    THEN FromCode(state.error_code) ELSE "RETRIEVAL_EMPTY"

\* _node_generate; llm: how the language model behaves if it is called
NodeGenerate(state, llm) ==
    LET contexts == state.contexts
        branch == GenerateBranch(state)
        generated == AnswerGenerationNodeRun(state.question, contexts, llm)
    IN CASE branch = "blocked" ->
              GenerateFallback(state, BlockedErrorCode(state.safeguard_label[1]), Len(contexts))
         [] branch = "empty" ->
              GenerateFallback(state, EmptyContextsCode(state), 0)
         [] OTHER ->
              IF Strip(generated.answer) = <<>>
              THEN GenerateFallback(state, "LLM_FAILED", Len(contexts))
              ELSE GenerateUpdate(state, generated.answer,
                                  [i \in 1..Len(contexts) |-> ToSourceItem(contexts[i], i)],
                                  IF generated.used_llm THEN None
                                  ELSE Some(RagErrorCode["LLM_FAILED"].code),
                                  Len(contexts))

\* DecideSummaryNode(summary_threshold=5)
SummaryThreshold == 5
DecideSummaryNodeRun(turn_count) == turn_count > SummaryThreshold

\* a rule that also summarises at the threshold itself
ShouldRunSummaryFromThreshold(state) == state.turn_count >= SummaryThreshold
\* _should_run_summary
ShouldRunSummary(state) == DecideSummaryNodeRun(state.turn_count)

\* SummaryNode.run; llm as above; the rule-based summary replaces a failed call
SummaryNodeRun(history, previous_summary, llm) ==
    IF history = <<>> THEN (IF previous_summary = None THEN <<>> ELSE Strip(previous_summary[1]))
    ELSE IF llm = "ok" THEN <<"summary", " ", "by", " ", "llm">>
    ELSE <<"recent", " ", "turns">>

\* _node_summary
NodeSummary(state, llm) ==
    [state EXCEPT !.summary = Some(SummaryNodeRun(state.history, state.summary, llm))]

(* Inputs of run: the question, metadata.language as the request carries   *)
(* it (any JSON value) and the turn count; the callers pass the rest empty *)
Questions ==
    {<<"hello">>, <<"call", " ", "010-1234-5678">>, <<"poktan">>, <<"jailbreak">>,
     <<"bimilbeonho">>}
Languages ==
    {None, Some([kind |-> "str", v |-> "ko"]), Some([kind |-> "list", v |-> <<"ko">>])}
InputTurnCounts == {0, 4, 5}
\* the history of the input state: none, or one earlier turn
InputHistories ==
    {<<>>, <<[role |-> "user", content |-> <<"earlier">>],
             [role |-> "assistant", content |-> <<"reply">>]>>}
LlmOutcomes == {"none", "ok", "empty", "raise"}

\* run: dict(state) plus the setdefault defaults
BaseState(question, language, turn_count) ==
    [question |-> question, language |-> language, history |-> <<>>, summary |-> None,
     turn_count |-> turn_count, contexts |-> <<>>, answer |-> None, route |-> None,
     error_code |-> None, safeguard_label |-> None, sources |-> <<>>,
     retrieval_stats |-> None]

PipelineInit ==
    /\ plPc = "idle"
    /\ plState = BaseState(<<>>, None, 0)
    /\ plTrace = <<>>
    /\ plGenCalls = 0
    /\ plSetCode = None
    /\ plRetrieved = <<>>
    /\ plInput = BaseState(<<>>, None, 0)

\* _build_graph: the unconditional edges (the entry point is safeguard)
GraphEdges ==
    [safeguard |-> "retrieve", retrieve |-> "policy_filter", policy_filter |-> "normalize",
     normalize |-> "merge", merge |-> "postprocess", postprocess |-> "generate",
     summary |-> "END"]

\* a node other than generate ran and returned its update
NodeStep(node, new) ==
    /\ plPc = node
    /\ plState' = new
    /\ plTrace' = Append(plTrace, node)
    /\ plPc' = GraphEdges[node]
    /\ plSetCode' = IF plSetCode = None /\ plState.error_code = None
                    THEN new.error_code ELSE plSetCode
    /\ plRetrieved' = IF node = "retrieve" THEN new.contexts ELSE plRetrieved
    /\ UNCHANGED <<plGenCalls, plInput>>

PlRun(question, language, turn_count, history) ==
    /\ plPc = "idle"
    /\ plState' = [BaseState(question, language, turn_count) EXCEPT !.history = history]
    /\ plInput' = plState'
    /\ plPc' = "safeguard"
    /\ UNCHANGED <<plTrace, plGenCalls, plSetCode, plRetrieved>>

PlSafeguard ==
    \E outcome \in {"ok", "NotImplementedError", "Exception"} :
        NodeStep("safeguard", NodeSafeguard(plState, outcome))

PlRetrieve ==
    \E outcome \in [kind : {"ok"}, query_docs : QueryDocLists, hyde_docs : HydeDocLists,
                    error : {[type |-> "none", words |-> {}]}]
                   \cup [kind : {"raise"}, query_docs : {<<>>}, hyde_docs : {<<>>},
                         error : RetrieveErrors] :
        NodeStep("retrieve", NodeRetrieve(plState, outcome))

PlPolicyFilter ==
    /\ ~PolicyFilterRaises(plState)
    /\ NodeStep("policy_filter", NodePolicyFilter(plState))

\* the TypeError leaves _node_policy_filter, invoke and run
PlPolicyFilterRaises ==
    /\ plPc = "policy_filter"
    /\ PolicyFilterRaises(plState)
    /\ plTrace' = Append(plTrace, "policy_filter")
    /\ plPc' = "raised"
    /\ UNCHANGED <<plState, plGenCalls, plSetCode, plRetrieved, plInput>>

PlNormalize == NodeStep("normalize", NodeNormalize(plState))

PlMerge == NodeStep("merge", NodeMerge(plState))

PlPostprocess ==
    \E outcome \in {"ok", "NotImplementedError", "Exception"} :
        NodeStep("postprocess", NodePostprocess(plState, outcome))

\* generate and its conditional edge
PlGenerate ==
    \E llm \in LlmOutcomes :
        LET new == NodeGenerate(plState, llm)
        IN /\ plPc = "generate"
           /\ plState' = new
           /\ plTrace' = Append(plTrace, "generate")
           /\ plGenCalls' = plGenCalls + (IF GenerateBranch(plState) = "generate" THEN 1 ELSE 0)
           /\ plPc' = IF ShouldRunSummary(new) THEN "summary" ELSE "END"
           /\ UNCHANGED <<plSetCode, plRetrieved, plInput>>

PlSummary ==
    \E llm \in LlmOutcomes : NodeStep("summary", NodeSummary(plState, llm))

\* END: invoke returns the final state to run, which returns it
PlEnd ==
    /\ plPc = "END"
    /\ plTrace' = Append(plTrace, "END")
    /\ plPc' = "returned"
    /\ UNCHANGED <<plState, plGenCalls, plSetCode, plRetrieved, plInput>>

-----------------------------------------------------------------------------
(* thirdsession AsyncSearchNode.run: the sub-queries are normalised, one    *)
(* search_one task per normalised query is gathered, a semaphore of         *)
(* max_concurrency slots guards each search and every search runs under     *)
(* asyncio.wait_for.  A retriever that only has the blocking invoke is run  *)
(* with asyncio.to_thread: wait_for can abandon the await on timeout but    *)
(* cannot stop the thread, which goes on searching.                         *)
VARIABLES
    asPc,                 \* "idle", "gather" or "returned"
    asQueries,            \* the queries argument of run
    asRetriever,          \* "none", "async" (ainvoke), "sync" (invoke) or "bare"
    asNormalizedQueries,  \* normalized_queries
    asTask,               \* per search_one task: "waiting", "searching", "done"
    asSemaphore,          \* free slots of the semaphore
    asSearched,           \* per task: the raw list its search returned (None: none)
    asResults,            \* per task: the list search_one returned
    asThreads,            \* tasks whose to_thread search outlived its timeout
    asOut                 \* the value run returned

asVars == <<asPc, asQueries, asRetriever, asNormalizedQueries, asTask, asSemaphore,
            asSearched, asResults, asThreads, asOut>>

\* AsyncSearchNode.__init__: max(1, max_concurrency)
MaxConcurrency == 2
\* longest queries argument explored
MaxQueries == 3

\* AsyncSearchNode._normalize_queries
RECURSIVE NormalizeQueriesInto(_, _)
NormalizeQueriesInto(normalized, queries) ==
    IF queries = <<>> THEN normalized
    ELSE LET text == JoinSplit(Head(queries))
         IN IF text = <<>> \/ \E i \in 1..Len(normalized) : normalized[i] = text
            THEN NormalizeQueriesInto(normalized, Tail(queries))
            ELSE NormalizeQueriesInto(Append(normalized, text), Tail(queries))

NormalizeQueries(queries) == NormalizeQueriesInto(<<>>, queries)

\* Python's a or b on optional values
OrElse(a, b) == IF a # None THEN a ELSE b

\* AsyncSearchNode._extract_score / _extract_score_type on a dict document
ExtractScore(doc) == IF OrElse(doc.score, doc.distance) # None
                     THEN OrElse(doc.score, doc.distance)[1] ELSE 0
ExtractScoreType(doc) == IF doc.distance # None THEN "distance" ELSE "similarity"

\* AsyncSearchNode._normalize_doc on a dict document
AsNormalizeDoc(doc, query) ==
    [doc_id |-> OrElse(doc.doc_id, doc.id),
     source_id |-> OrElse(doc.source_id, doc.id),
     content |-> doc.content,
     score |-> ExtractScore(doc),
     score_type |-> ExtractScoreType(doc),
     retrieval_query |-> query]

AsNormalizeDocs(docs, query) == [i \in 1..Len(docs) |-> AsNormalizeDoc(docs[i], query)]

RawDoc(doc_id, id, source_id, content, score, distance) ==
    [doc_id |-> doc_id, id |-> id, source_id |-> source_id, content |-> content,
     score |-> score, distance |-> distance]

\* what the retrieval capability may answer
SearchAnswers ==
    {<<>>,
     <<RawDoc(Some("d2"), None, Some("s2"), <<"b">>, None, Some(300)),
       RawDoc(None, Some("r1"), None, <<"a">>, Some(700), None)>>}

SubQueryTexts == {<<"a">>, <<"b">>, <<"a", " ", " ", "b">>, <<" ">>}

QueryLists == UNION {[1..n -> SubQueryTexts] : n \in 0..MaxQueries}

\* searches executing against the retrieval capability right now
Executing ==
    Cardinality({i \in DOMAIN asTask : asTask[i] = "searching"}) + Cardinality(asThreads)

AsyncSearchIdle ==
    /\ asPc = "idle"
    /\ asQueries = <<>>
    /\ asRetriever = "none"
    /\ asNormalizedQueries = <<>>
    /\ asTask = <<>>
    /\ asSemaphore = 0
    /\ asSearched = <<>>
    /\ asResults = <<>>
    /\ asThreads = {}
    /\ asOut = <<>>

\* run up to the gather: the early returns, or one waiting task per query
AsRun(queries, retriever) ==
    LET normalized_queries == NormalizeQueries(queries)
        n == Len(normalized_queries)
        early == normalized_queries = <<>> \/ retriever = "none"
    IN /\ asPc = "idle"
       /\ asQueries' = queries
       /\ asRetriever' = retriever
       /\ asNormalizedQueries' = normalized_queries
       /\ asPc' = IF early THEN "returned" ELSE "gather"
       /\ asOut' = IF early THEN [i \in 1..n |-> <<>>] ELSE <<>>
       /\ asTask' = IF early THEN <<>> ELSE [i \in 1..n |-> "waiting"]
       /\ asSearched' = IF early THEN <<>> ELSE [i \in 1..n |-> None]
       /\ asResults' = IF early THEN <<>> ELSE [i \in 1..n |-> <<>>]
       /\ asSemaphore' = IF early THEN 0 ELSE MaxConcurrency
       /\ UNCHANGED asThreads

\* search_one: async with semaphore entered, the search starts
AsAcquire(i) ==
    /\ asPc = "gather"
    /\ asTask[i] = "waiting"
    /\ asSemaphore > 0
    /\ asSemaphore' = asSemaphore - 1
    /\ asTask' = [asTask EXCEPT ![i] = "searching"]
    /\ UNCHANGED <<asPc, asQueries, asRetriever, asNormalizedQueries, asSearched,
                   asResults, asThreads, asOut>>

\* search_one: the search answered in time; its documents are normalised
AsSearchReturns(i, docs) ==
    /\ asPc = "gather"
    /\ asTask[i] = "searching"
    /\ asRetriever = "bare" => docs = <<>>
    /\ asSearched' = [asSearched EXCEPT ![i] = Some(docs)]
    /\ asResults' = [asResults EXCEPT ![i] = AsNormalizeDocs(docs, asNormalizedQueries[i])]
    /\ asTask' = [asTask EXCEPT ![i] = "done"]
    /\ asSemaphore' = asSemaphore + 1
    /\ UNCHANGED <<asPc, asQueries, asRetriever, asNormalizedQueries, asThreads, asOut>>

\* a search_one without the try: the exception ends the gather and the
\* siblings' results are lost
AsSearchRaisesEndsGather(i) ==
    /\ asPc = "gather"
    /\ asTask[i] = "searching"
    /\ asRetriever \in {"async", "sync"}
    /\ asOut' = [j \in DOMAIN asTask |-> <<>>]
    /\ asPc' = "returned"
    /\ UNCHANGED <<asQueries, asRetriever, asNormalizedQueries, asTask, asSemaphore,
                   asSearched, asResults, asThreads>>

\* search_one: the search raised; except Exception returns []
AsSearchRaises(i) ==
    /\ asPc = "gather"
    /\ asTask[i] = "searching"
    /\ asRetriever \in {"async", "sync"}
    /\ asResults' = [asResults EXCEPT ![i] = <<>>]
    /\ asTask' = [asTask EXCEPT ![i] = "done"]
    /\ asSemaphore' = asSemaphore + 1
    /\ UNCHANGED <<asPc, asQueries, asRetriever, asNormalizedQueries, asSearched,
                   asThreads, asOut>>

\* search_one: wait_for timed out; except Exception returns [] and the slot is
\* released, a to_thread search keeps running in its thread
AsSearchTimesOut(i) ==
    /\ asPc = "gather"
    /\ asTask[i] = "searching"
    /\ asRetriever \in {"async", "sync"}
    /\ asResults' = [asResults EXCEPT ![i] = <<>>]
    /\ asTask' = [asTask EXCEPT ![i] = "done"]
    /\ asSemaphore' = asSemaphore + 1
    /\ asThreads' = IF asRetriever = "sync" THEN asThreads \cup {i} ELSE asThreads
    /\ UNCHANGED <<asPc, asQueries, asRetriever, asNormalizedQueries, asSearched, asOut>>

\* a to_thread search that outlived its timeout finishes
AsThreadEnds(i) ==
    /\ i \in asThreads
    /\ asThreads' = asThreads \ {i}
    /\ UNCHANGED <<asPc, asQueries, asRetriever, asNormalizedQueries, asTask,
                   asSemaphore, asSearched, asResults, asOut>>

\* asyncio.gather: every task is done, run returns the results in task order
AsGather ==
    /\ asPc = "gather"
    /\ \A i \in DOMAIN asTask : asTask[i] = "done"
    /\ asOut' = asResults
    /\ asPc' = "returned"
    /\ UNCHANGED <<asQueries, asRetriever, asNormalizedQueries, asTask, asSemaphore,
                   asSearched, asResults, asThreads>>

-----------------------------------------------------------------------------
(* thirdsession MergeNode.run and PostprocessNode.run on documents as the   *)
(* retrieval backends return them (dicts with optional id, doc_id,          *)
(* source_id, metadata.source_id, score and score_type).  An absent key and *)
(* a None value are both None; "" is the falsy string.                      *)
VARIABLES
    mgPc,        \* "idle", "merged", "remerged" or "postprocessed"
    mgGroups,    \* the groups argument of the first run
    mgMerged,    \* MergeNode.run(groups)
    mgRemerged,  \* MergeNode.run([MergeNode.run(groups)])
    ppOut        \* PostprocessNode.run(docs)

mgVars == <<mgPc, mgGroups, mgMerged, mgRemerged, ppOut>>

\* MergeNode(top_k, max_per_source) as configured here
MergeTopK == 3
MergeMaxPerSource == 2
\* most documents in one input
MaxDocs == 4

\* Python truthiness of an optional string, and a or b
PyTruthy(x) == x # None /\ x[1] # ""
PyOr(a, b) == IF PyTruthy(a) THEN a ELSE b

BackendDoc(doc_id, id, source_id, metadata_source_id, content, score, score_type) ==
    [doc_id |-> doc_id, id |-> id, source_id |-> source_id,
     metadata_source_id |-> metadata_source_id, content |-> content,
     score |-> score, score_type |-> score_type]

\* MergeNode._to_doc_dict on a dict document (the result has no id key)
MergeToDocDict(doc) ==
    [doc_id |-> PyOr(doc.doc_id, doc.id),
     id |-> None,
     source_id |-> PyOr(doc.source_id, PyOr(doc.metadata_source_id, doc.id)),
     metadata_source_id |-> doc.metadata_source_id,
     content |-> doc.content,
     score |-> doc.score,
     score_type |-> PyOr(doc.score_type, Some("similarity"))]

\* a transform that returns the distance as the similarity
MergeNormalizeScoreUnchanged(score, score_type) == IF score = None THEN 0 ELSE score[1]
\* MergeNode._normalize_score after _to_float, in thousandths
MergeNormalizeScore(score, score_type) ==
    LET value == IF score = None THEN 0 ELSE score[1]
    IN IF score_type = Some("distance")
       THEN (ScoreScale * ScoreScale) \div (ScoreScale + Max2(value, 0))
       ELSE value

RECURSIVE Flatten(_)
Flatten(groups) == IF groups = <<>> THEN <<>> ELSE Head(groups) \o Flatten(Tail(groups))

\* MergeNode._normalize_groups
MergeNormalizeGroups(groups) ==
    LET docs == Flatten(groups)
        Normalized(doc) ==
            LET normalized == MergeToDocDict(doc)
            IN [normalized EXCEPT
                    !.score = Some(MergeNormalizeScore(normalized.score, normalized.score_type)),
                    !.score_type = Some("similarity")]
    IN [i \in 1..Len(docs) |-> Normalized(docs[i])]

\* MergeNode._doc_key
MergeDocKey(doc) ==
    IF doc.source_id # None THEN <<"source:", doc.source_id[1]>>
    ELSE IF doc.doc_id # None THEN <<"doc:", doc.doc_id[1]>>
    ELSE <<"content:", doc.content>>

\* MergeNode._dedupe: the first document of every key
MergeDedupe(docs) == Dedupe(docs, [i \in 1..Len(docs) |-> MergeDocKey(docs[i])])

\* the counting key of _diversify: str(source_id or "unknown")
SourceBucket(doc) == IF PyTruthy(doc.source_id) THEN doc.source_id[1] ELSE "unknown"

\* MergeNode._diversify: by score, at most max_per_source per source_id
MergeDiversify(docs) ==
    LET sorted_docs == SortByScoreDesc(docs)
        F[i \in 0..Len(sorted_docs)] ==
            IF i = 0 THEN <<>>
            ELSE IF Cardinality({j \in 1..Len(F[i - 1]) :
                        SourceBucket(F[i - 1][j]) = SourceBucket(sorted_docs[i])})
                    >= MergeMaxPerSource
                 THEN F[i - 1] ELSE Append(F[i - 1], sorted_docs[i])
    IN F[Len(sorted_docs)]

\* a merger that only flattens and normalises
MergeNodeRunWithoutLimits(groups) == MergeNormalizeGroups(groups)
\* a merger that stops after the dedupe
MergeNodeRunDedupeOnly(groups) == MergeDedupe(MergeNormalizeGroups(groups))
\* MergeNode.run: normalise, dedupe, diversify, sort, top_k
MergeNodeRun(groups) ==
    Take(SortByScoreDesc(MergeDiversify(MergeDedupe(MergeNormalizeGroups(groups)))),
         MergeTopK)

\* PostprocessNode._to_doc_dict on a dict document
PostprocessToDocDict(doc) ==
    [MergeToDocDict(doc) EXCEPT !.score = Some(IF doc.score = None THEN 0 ELSE doc.score[1])]

\* PostprocessNode.run on backend documents
PostProcessorRun(docs) ==
    PostprocessNodeRun([i \in 1..Len(docs) |-> PostprocessToDocDict(docs[i])])

DocS1Low == BackendDoc(None, None, Some("s1"), None, <<"lo">>, Some(200), None)
DocS1High == BackendDoc(None, None, None, Some("s1"), <<"hi">>, Some(900), Some("similarity"))
DocDistance ==
    BackendDoc(Some("d3"), None, None, None, <<"lo", " ", " ", "x">>, Some(250), Some("distance"))
DocBare == BackendDoc(None, None, None, None, <<"e">>, None, None)
DocFalsyId == BackendDoc(None, Some(""), None, None, <<"f">>, Some(500), None)

DocS1Mid == BackendDoc(None, None, Some("s1"), None, <<"m">>, Some(600), None)
DocS2 == BackendDoc(Some("d9"), None, Some("s2"), None, <<"g">>, Some(700), None)

BackendDocs == {DocS1Low, DocS1Mid, DocS1High, DocS2, DocDistance, DocBare, DocFalsyId}

\* the lists of at most MaxDocs different documents
DocLists ==
    UNION {{docs \in [1..n -> BackendDocs] :
                \A i, j \in 1..n : i # j => docs[i] # docs[j]} : n \in 0..MaxDocs}

\* the documents as one group, and split into two groups
GroupLists ==
    UNION {{<<docs>>, <<SubSeq(docs, 1, Len(docs) \div 2),
                       SubSeq(docs, Len(docs) \div 2 + 1, Len(docs))>>} : docs \in DocLists}

MergeIdle ==
    /\ mgPc = "idle"
    /\ mgGroups = <<>>
    /\ mgMerged = <<>>
    /\ mgRemerged = <<>>
    /\ ppOut = <<>>

\* MergeNode.run(groups)
MgRun(groups) ==
    /\ mgPc = "idle"
    /\ mgGroups' = groups
    /\ mgMerged' = MergeNodeRun(groups)
    /\ mgPc' = "merged"
    /\ UNCHANGED <<mgRemerged, ppOut>>

\* MergeNode.run on the list whose one group is the previous result
MgRunAgain ==
    /\ mgPc = "merged"
    /\ mgRemerged' = MergeNodeRun(<<mgMerged>>)
    /\ mgPc' = "remerged"
    /\ UNCHANGED <<mgGroups, mgMerged, ppOut>>

\* PostprocessNode.run(docs)
PpRun(docs) ==
    /\ mgPc = "idle"
    /\ mgGroups' = <<docs>>
    /\ ppOut' = PostProcessorRun(docs)
    /\ mgPc' = "postprocessed"
    /\ UNCHANGED <<mgMerged, mgRemerged>>

-----------------------------------------------------------------------------
(* thirdsession AdaptiveHydeGraph.run: search -> judge -> (hyde) -> merge   *)
(* -> END.  Only _node_hyde and _node_merge run their collaborator inside a *)
(* try; _node_search and the NotImplementedError handler of _node_hyde call *)
(* _search_docs bare.                                                       *)
VARIABLES
    ahPc,        \* "idle", the node about to run, "END", "returned" or "raised"
    ahState,     \* the AdaptiveHydeState threaded through the graph
    ahOut        \* the list run returned

ahVars == <<ahPc, ahState, ahOut>>

HydeQuestions == {<<" ">>, <<"lo">>, <<"zz">>}

\* what the store may answer to the baseline and to the HyDE search
BaseAnswers ==
    {<<>>, <<DocS1Low>>, <<DocS1Low, DocS1High>>, <<DocDistance, DocBare>>,
     <<DocS1Low, DocS1High, DocBare>>}
HydeAnswers == {<<>>, <<DocFalsyId>>}

\* re.findall(r"[a-zA-Z0-9...]+", question.lower()) keeping tokens of length >= 2
QuestionTokens(question) == {question[i] : i \in {j \in 1..Len(question) : ~IsSpace(question[j])}}

\* AdaptiveHydeGraph._should_use_hyde
ShouldUseHyde(question, docs) ==
    LET tokens == QuestionTokens(question)
        hit_count == Cardinality({i \in 1..Len(docs) :
                        \E j \in 1..Len(docs[i].content) : docs[i].content[j] \in tokens})
    IN IF Len(docs) = 0 THEN TRUE
       ELSE IF tokens = {} THEN FALSE
       ELSE hit_count < Max2(1, Len(docs) \div 2)

\* AdaptiveHydeGraph._doc_key
HydeDocKey(doc) ==
    IF PyOr(doc.source_id, doc.id) # None THEN <<"id", PyOr(doc.source_id, doc.id)[1]>>
    ELSE <<"content", doc.content>>

\* AdaptiveHydeGraph._fallback_merge
HydeFallbackMerge(groups) ==
    Dedupe(Flatten(groups), [i \in 1..Len(Flatten(groups)) |-> HydeDocKey(Flatten(groups)[i])])

AdaptiveHydeIdle ==
    /\ ahPc = "idle"
    /\ ahState = [question |-> <<>>, store |-> "none", base_docs |-> <<>>,
                  hyde_docs |-> <<>>, merged_docs |-> <<>>, use_hyde |-> FALSE]
    /\ ahOut = <<>>

\* run: the input state is handed to the compiled graph
AhRun(question, store) ==
    /\ ahPc = "idle"
    /\ ahState' = [ahState EXCEPT !.question = question, !.store = store]
    /\ ahPc' = "search"
    /\ UNCHANGED ahOut

\* _node_search: no store, or _search_docs answered
AhSearch(docs) ==
    /\ ahPc = "search"
    /\ ahState.store = "none" => docs = <<>>
    /\ ahState' = [ahState EXCEPT !.base_docs = docs]
    /\ ahPc' = "judge"
    /\ UNCHANGED ahOut

\* _node_search: the store raised inside _search_docs; nothing catches it
AhSearchRaises ==
    /\ ahPc = "search"
    /\ ahState.store # "none"
    /\ ahPc' = "raised"
    /\ UNCHANGED <<ahState, ahOut>>

\* _node_judge and the conditional edge on use_hyde
AhJudge ==
    LET use_hyde == ShouldUseHyde(ahState.question, ahState.base_docs)
    IN /\ ahPc = "judge"
       /\ ahState' = [ahState EXCEPT !.use_hyde = use_hyde]
       /\ ahPc' = IF use_hyde THEN "hyde" ELSE "merge"
       /\ UNCHANGED ahOut

\* _node_hyde: no store, or HydeNode.run returned (a blank question gives [])
AhHyde(docs) ==
    /\ ahPc = "hyde"
    /\ (ahState.store = "none" \/ Strip(ahState.question) = <<>>) => docs = <<>>
    /\ ahState' = [ahState EXCEPT !.hyde_docs = docs]
    /\ ahPc' = "merge"
    /\ UNCHANGED ahOut

\* _node_hyde: HydeNode.run raised an Exception; hyde_docs is []
AhHydeFails ==
    /\ ahPc = "hyde"
    /\ ahState.store # "none" /\ Strip(ahState.question) # <<>>
    /\ ahState' = [ahState EXCEPT !.hyde_docs = <<>>]
    /\ ahPc' = "merge"
    /\ UNCHANGED ahOut

\* _node_hyde: HydeNode.run raised NotImplementedError and
\* _fallback_hyde_search answered
AhHydeFallbackSearch(docs) ==
    /\ ahPc = "hyde"
    /\ ahState.store # "none" /\ Strip(ahState.question) # <<>>
    /\ ahState' = [ahState EXCEPT !.hyde_docs = docs]
    /\ ahPc' = "merge"
    /\ UNCHANGED ahOut

\* _node_hyde: the store raised inside _fallback_hyde_search, which runs in
\* the except handler; nothing catches it
AhHydeFallbackSearchRaises ==
    /\ ahPc = "hyde"
    /\ ahState.store # "none" /\ Strip(ahState.question) # <<>>
    /\ ahPc' = "raised"
    /\ UNCHANGED <<ahState, ahOut>>

\* _node_merge; outcome: MergeNode.run returned or raised
AhMerge(outcome) ==
    LET groups == <<ahState.base_docs, ahState.hyde_docs>>
    IN /\ ahPc = "merge"
       /\ ahState' = [ahState EXCEPT !.merged_docs =
                          IF outcome = "ok" THEN MergeNodeRun(groups)
                          ELSE HydeFallbackMerge(groups)]
       /\ ahPc' = "END"
       /\ UNCHANGED ahOut

\* END: run returns result.get("merged_docs", [])
AhEnd ==
    /\ ahPc = "END"
    /\ ahOut' = ahState.merged_docs
    /\ ahPc' = "returned"
    /\ UNCHANGED ahState

-----------------------------------------------------------------------------
(* The distance -> similarity transform, as MergeNode._normalize_score and  *)
(* RagPipelineGraph._node_normalize apply it to the scores of two           *)
(* documents.  Scores are thousandths; the division keeps the integer part, *)
(* as the float division keeps a finite number of digits.                   *)
VARIABLES
    scPc,         \* "idle", "merge_node", "pipeline"
    scDistances,  \* the two distance scores given
    scScores      \* the two similarity scores computed

scVars == <<scPc, scDistances, scScores>>

\* the distances 0.500, 0.501, ... next to each other
DistanceSpan == 5

Distances == {-2000, -1, 0, 250, 2000} \cup {500 + k : k \in 0..DistanceSpan}

ScoreIdle ==
    /\ scPc = "idle"
    /\ scDistances = <<>>
    /\ scScores = <<>>

\* MergeNode._normalize_score(d1, "distance") and (d2, "distance")
ScNormalizeScore(d1, d2) ==
    /\ scPc = "idle"
    /\ scDistances' = <<d1, d2>>
    /\ scScores' = <<MergeNormalizeScore(Some(d1), Some("distance")),
                     MergeNormalizeScore(Some(d2), Some("distance"))>>
    /\ scPc' = "merge_node"

\* _node_normalize on contexts of two documents scored d1 and d2 as distances
ScNodeNormalize(d1, d2) ==
    /\ scPc = "idle"
    /\ scDistances' = <<d1, d2>>
    /\ scScores' =
           LET contexts == <<Doc(Some("s1"), None, <<"a">>, Some(d1), "distance", None, None),
                             Doc(Some("s2"), None, <<"b">>, Some(d2), "distance", None, None)>>
           IN <<NormalizeDoc(contexts[1]).score[1], NormalizeDoc(contexts[2]).score[1]>>
    /\ scPc' = "pipeline"

-----------------------------------------------------------------------------
(* StreamAnswerNode.run on a prebuilt answer: the whole event sequence of  *)
(* one call.                                                               *)
VARIABLES
    saPc,      \* "idle", "streamed"
    saAnswer,  \* the prebuilt answer given
    saOut      \* the events yielded, in order

saVars == <<saPc, saAnswer, saOut>>

\* longest answer given
MaxAnswerLen == 4

AnswerChars == {"a", "b", " "}

Answers == UNION {[1..n -> AnswerChars] : n \in 0..MaxAnswerLen}

StreamAnswerIdle ==
    /\ saPc = "idle"
    /\ saAnswer = <<>>
    /\ saOut = <<>>

\* StreamAnswerNode.run: one token{in_progress} per token of _split_answer,
\* indexed from seq_start, then token{end}
StreamAnswerNodeRun(answer, seq_start) ==
    LET tokens == SplitAnswer(answer)
    IN [i \in 1..Len(tokens) |-> TokenEvent(tokens[i], seq_start + i - 1)] \o <<TokenEndEvent>>

SaRun(answer) ==
    /\ saPc = "idle"
    /\ saAnswer' = answer
    /\ saOut' = StreamAnswerNodeRun(answer, 1)
    /\ saPc' = "streamed"

-----------------------------------------------------------------------------
(* thirdsession QueryDecomposeNode.run.  A question is a sequence of words  *)
(* and separators: "," stands for the separators the rule-based split takes *)
(* anywhere (the Korean conjunctions, "," and "/"), "vs" for the ones it    *)
(* takes only between spaces (" vs ", " VS ").  The output of the language  *)
(* model is a sequence of lines.                                            *)
VARIABLES
    qdPc,        \* "idle", "returned"
    qdQuestion,  \* the question given
    qdLlm,       \* the language model: absent, raising, or answering with lines
    qdOut        \* the list run returned

qdVars == <<qdPc, qdQuestion, qdLlm, qdOut>>

\* QueryDecomposeNode(max_sub_queries) as configured here
MaxSubQueries == 2
\* longest question given
MaxQuestionLen == 4

QuestionAtoms == {"a", "b", " ", ",", "vs"}

DecomposeQuestions == UNION {[1..n -> QuestionAtoms] : n \in 0..MaxQuestionLen}

\* what the language model answers: nothing, a bulleted list of two, one
\* line twice, one line, three lines with a checkbox and doubled spaces
DecomposeOutputs ==
    { <<>>,
      <<<<"-", " ", "a">>, <<" ">>, <<"-", " ", "b">>>>,
      <<<<"a">>, <<"a">>>>,
      <<<<"1", ".", " ", "b", " ", " ", "a">>>>,
      <<<<"[x]", " ", "a", " ", " ", "b">>, <<"-">>, <<"b">>, <<"a">>>> }

DecomposeLlms ==
    {[kind |-> "none", lines |-> <<>>], [kind |-> "raise", lines |-> <<>>]}
        \cup {[kind |-> "output", lines |-> output] : output \in DecomposeOutputs}

QueryDecomposeIdle ==
    /\ qdPc = "idle"
    /\ qdQuestion = <<>>
    /\ qdLlm = [kind |-> "none", lines |-> <<>>]
    /\ qdOut = <<>>

\* QueryDecomposeNode._normalize_queries: collapse whitespace, drop blanks and
\* repeats, stop at max_sub_queries
RECURSIVE DecomposeNormalizeInto(_, _)
DecomposeNormalizeInto(normalized, queries) ==
    IF queries = <<>> THEN normalized
    ELSE LET text == JoinSplit(Head(queries))
         IN IF text = <<>> \/ \E i \in 1..Len(normalized) : normalized[i] = text
            THEN DecomposeNormalizeInto(normalized, Tail(queries))
            ELSE IF Len(normalized) + 1 >= MaxSubQueries
                 THEN Append(normalized, text)
                 ELSE DecomposeNormalizeInto(Append(normalized, text), Tail(queries))

DecomposeNormalizeQueries(queries) == DecomposeNormalizeInto(<<>>, queries)

\* the characters re.sub(r"^[-*\d\.\)\]\s]+", "", line) removes from the front
BulletAtoms == {"-", "*", "1", ".", ")", "]", " "}

RECURSIVE DropBullets(_)
DropBullets(line) ==
    IF line # <<>> /\ Head(line) \in BulletAtoms THEN DropBullets(Tail(line)) ELSE line

\* re.sub(r"^\[[xX ]\]\s*", "", line)
DropCheckbox(line) == IF line # <<>> /\ Head(line) = "[x]" THEN LStrip(Tail(line)) ELSE line

\* the candidate lines of _parse_output, before _normalize_queries
RECURSIVE ParseCandidates(_)
ParseCandidates(lines) ==
    IF lines = <<>> THEN <<>>
    ELSE LET line == Strip(DropCheckbox(Strip(DropBullets(Strip(Head(lines))))))
         IN IF line = <<>> THEN ParseCandidates(Tail(lines))
            ELSE <<line>> \o ParseCandidates(Tail(lines))

\* QueryDecomposeNode._parse_output
ParseOutput(lines) == DecomposeNormalizeQueries(ParseCandidates(lines))

\* the separator alternatives of the re.split pattern match at position i
SeparatorAt(s, i) ==
    \/ s[i] = ","
    \/ s[i] = "vs" /\ i > 1 /\ i < Len(s) /\ s[i - 1] = " " /\ s[i + 1] = " "

\* re.split(r"\s*(?:...)\s*", question): the match takes the spaces around
\* the separator, so the text after it starts at a non-space
RECURSIVE RegexSplit(_)
RegexSplit(s) ==
    LET hits == {i \in 1..Len(s) : SeparatorAt(s, i)}
    IN IF hits = {} THEN <<s>>
       ELSE LET i == CHOOSE k \in hits : \A j \in hits : k <= j
                after == IF s[i] = "," THEN i + 1 ELSE i + 2
            IN <<SubSeq(s, 1, i - 1)>> \o RegexSplit(LStrip(SubSeq(s, after, Len(s))))

\* the candidates of _fallback_decompose: the stripped non-blank fragments
FallbackCandidates(question) ==
    LET fragments == RegexSplit(question)
        F[i \in 0..Len(fragments)] ==
            IF i = 0 THEN <<>>
            ELSE IF Strip(fragments[i]) = <<>> THEN F[i - 1]
            ELSE Append(F[i - 1], Strip(fragments[i]))
    IN F[Len(fragments)]

\* QueryDecomposeNode._fallback_decompose
FallbackDecompose(question) ==
    LET candidates == FallbackCandidates(question)
    IN IF candidates = <<>> THEN <<question>>
       ELSE IF Len(candidates) = 1 THEN <<question>>
       ELSE DecomposeNormalizeQueries(candidates)

\* QueryDecomposeNode.run
QueryDecomposeNodeRun(question, llm) ==
    LET normalized_question == Strip(question)
    IN IF normalized_question = <<>> THEN <<>>
       ELSE IF llm.kind \in {"none", "raise"} THEN FallbackDecompose(normalized_question)
       ELSE IF ParseOutput(llm.lines) # <<>> THEN ParseOutput(llm.lines)
       ELSE FallbackDecompose(normalized_question)

QdRun(question, llm) ==
    /\ qdPc = "idle"
    /\ qdQuestion' = question
    /\ qdLlm' = llm
    /\ qdOut' = QueryDecomposeNodeRun(question, llm)
    /\ qdPc' = "returned"

-----------------------------------------------------------------------------
(* fourthsession housing jobs: HousingJobService.create_job and cancel_job *)
(* of one client, HousingJobWorker.run_once of one worker, over one        *)
(* InMemoryJobStore, one job queue and one stream queue.  Every store or   *)
(* queue call is one step (the store takes its lock per call).             *)
VARIABLES
    hjStatus,     \* the status of the job's record ("none": no record)
    hjQueue,      \* the job queue
    hjStream,     \* the statuses of the events pushed for the job, in order
    hjClientPc,   \* position of the client in create_job / cancel_job
    hjSeen,       \* job.status as cancel_job read it
    hjWorkerPc    \* position of the worker in run_once

hjVars == <<hjStatus, hjQueue, hjStream, hjClientPc, hjSeen, hjWorkerPc>>

HousingJobId == "job-h"

HousingTerminal == {"COMPLETED", "FAILED", "CANCELLED"}

HousingJobIdle ==
    /\ hjStatus = "none"
    /\ hjQueue = <<>>
    /\ hjStream = <<>>
    /\ hjClientPc = "start"
    /\ hjSeen = "none"
    /\ hjWorkerPc = "poll"

\* InMemoryJobStore.update_status: a record that exists takes the status
UpdateStatus(current, status) == IF current = "none" THEN current ELSE status

\* create_job: job_store.create
HjCreate ==
    /\ hjClientPc = "start"
    /\ hjStatus' = "QUEUED"
    /\ hjClientPc' = "stored"
    /\ UNCHANGED <<hjQueue, hjStream, hjSeen, hjWorkerPc>>

\* create_job: job_queue.enqueue
HjEnqueue ==
    /\ hjClientPc = "stored"
    /\ hjQueue' = Append(hjQueue, HousingJobId)
    /\ hjClientPc' = "created"
    /\ UNCHANGED <<hjStatus, hjStream, hjSeen, hjWorkerPc>>

\* create_job: enqueue raised, the record is set to FAILED
HjEnqueueRaises ==
    /\ hjClientPc = "stored"
    /\ hjStatus' = UpdateStatus(hjStatus, "FAILED")
    /\ hjClientPc' = "created"
    /\ UNCHANGED <<hjQueue, hjStream, hjSeen, hjWorkerPc>>

\* cancel_job: job_store.get
HjCancelGet ==
    /\ hjClientPc = "created"
    /\ hjSeen' = hjStatus
    /\ hjClientPc' = "cancel_got"
    /\ UNCHANGED <<hjStatus, hjQueue, hjStream, hjWorkerPc>>

\* cancel_job: a terminal status is returned as it is
HjCancelReturnsTerminal ==
    /\ hjClientPc = "cancel_got"
    /\ hjSeen \in HousingTerminal
    /\ hjClientPc' = "cancel_returned"
    /\ UNCHANGED <<hjStatus, hjQueue, hjStream, hjSeen, hjWorkerPc>>

\* cancel_job: update_status(CANCELLED)
HjCancelUpdate ==
    /\ hjClientPc = "cancel_got"
    /\ hjSeen \notin HousingTerminal
    /\ hjStatus' = UpdateStatus(hjStatus, "CANCELLED")
    /\ hjClientPc' = "cancel_push"
    /\ UNCHANGED <<hjQueue, hjStream, hjSeen, hjWorkerPc>>

\* cancel_job: the CANCELLED status event
HjCancelPush ==
    /\ hjClientPc = "cancel_push"
    /\ hjStream' = Append(hjStream, "CANCELLED")
    /\ hjClientPc' = "cancel_returned"
    /\ UNCHANGED <<hjStatus, hjQueue, hjSeen, hjWorkerPc>>

\* run_once: job_queue.dequeue returned the payload
HjDequeue ==
    /\ hjWorkerPc = "poll"
    /\ hjQueue # <<>>
    /\ hjQueue' = Tail(hjQueue)
    /\ hjWorkerPc' = "set_running"
    /\ UNCHANGED <<hjStatus, hjStream, hjClientPc, hjSeen>>

\* run_once: update_status(RUNNING)
HjSetRunning ==
    /\ hjWorkerPc = "set_running"
    /\ hjStatus' = UpdateStatus(hjStatus, "RUNNING")
    /\ hjWorkerPc' = "push_running"
    /\ UNCHANGED <<hjQueue, hjStream, hjClientPc, hjSeen>>

\* run_once: the RUNNING status event
HjPushRunning ==
    /\ hjWorkerPc = "push_running"
    /\ hjStream' = Append(hjStream, "RUNNING")
    /\ hjWorkerPc' = "handle"
    /\ UNCHANGED <<hjStatus, hjQueue, hjClientPc, hjSeen>>

\* run_once: agent_service.handle returned
HjHandleReturns ==
    /\ hjWorkerPc = "handle"
    /\ hjWorkerPc' = "set_completed"
    /\ UNCHANGED <<hjStatus, hjQueue, hjStream, hjClientPc, hjSeen>>

\* run_once: from_payload or handle raised
HjHandleRaises ==
    /\ hjWorkerPc = "handle"
    /\ hjWorkerPc' = "set_failed"
    /\ UNCHANGED <<hjStatus, hjQueue, hjStream, hjClientPc, hjSeen>>

\* run_once: update_status(COMPLETED)
HjSetCompleted ==
    /\ hjWorkerPc = "set_completed"
    /\ hjStatus' = UpdateStatus(hjStatus, "COMPLETED")
    /\ hjWorkerPc' = "push_result"
    /\ UNCHANGED <<hjQueue, hjStream, hjClientPc, hjSeen>>

\* run_once: the result event
HjPushResult ==
    /\ hjWorkerPc = "push_result"
    /\ hjStream' = Append(hjStream, "COMPLETED")
    /\ hjWorkerPc' = "poll"
    /\ UNCHANGED <<hjStatus, hjQueue, hjClientPc, hjSeen>>

\* run_once, except branch: update_status(FAILED)
HjSetFailed ==
    /\ hjWorkerPc = "set_failed"
    /\ hjStatus' = UpdateStatus(hjStatus, "FAILED")
    /\ hjWorkerPc' = "push_error"
    /\ UNCHANGED <<hjQueue, hjStream, hjClientPc, hjSeen>>

\* run_once, except branch: the error event
HjPushError ==
    /\ hjWorkerPc = "push_error"
    /\ hjStream' = Append(hjStream, "FAILED")
    /\ hjWorkerPc' = "poll"
    /\ UNCHANGED <<hjStatus, hjQueue, hjClientPc, hjSeen>>

-----------------------------------------------------------------------------
(* A call log of RagJobService for one job: which calls were made since    *)
(* the job was created, what graph.run was given back each time it ran and *)
(* what the first stream_events call returned.  The service is the one of  *)
(* the RagJobService section; the log is written next to its actions.      *)
VARIABLES
    rjsCallLog,   \* "stream" / "cancel" for every call on the job, in order
    rjsRan,       \* the outcome of every graph.run for the job, in order
    rjsFirst      \* what the first stream_events call returned (None: no call yet)

lgVars == <<rjsCallLog, rjsRan, rjsFirst>>

MaxCalls == 3

LoggedJobId == "job-a"

CallLogIdle ==
    /\ rjsCallLog = <<>>
    /\ rjsRan = <<>>
    /\ rjsFirst = None

\* _materialize_inmemory_result_if_needed reaches graph.run
GraphRuns(job) ==
    /\ rjsGraphSet
    /\ job.status \notin {"completed", "failed", "canceled"}

LoggedStreamEvents ==
    /\ Len(rjsCallLog) < MaxCalls
    /\ \E o \in MaterializeOutcomes :
         /\ RjsStreamEventsOf(LoggedJobId, o)
         /\ rjsRan' = IF GraphRuns(rjsJobs[LoggedJobId]) THEN Append(rjsRan, o) ELSE rjsRan
    /\ rjsCallLog' = Append(rjsCallLog, "stream")
    /\ rjsFirst' = IF IsNone(rjsFirst) THEN rjsStream'[LoggedJobId] ELSE rjsFirst

\* cancel of a job that is not finished
LoggedCancel ==
    /\ Len(rjsCallLog) < MaxCalls
    /\ RjsCancel(LoggedJobId)
    /\ rjsCallLog' = Append(rjsCallLog, "cancel")
    /\ UNCHANGED <<rjsRan, rjsFirst>>

\* cancel of a completed, failed or canceled job: the status is returned
LoggedCancelFinished ==
    /\ Len(rjsCallLog) < MaxCalls
    /\ rjsJobs[LoggedJobId].status \in {"completed", "failed", "canceled"}
    /\ rjsCallLog' = Append(rjsCallLog, "cancel")
    /\ UNCHANGED <<rjsVars, rjsRan, rjsFirst>>

-----------------------------------------------------------------------------
(* secondsession ChatGraph: the graph _build_graph wires, one step per     *)
(* node together with the edge that leaves it.  A node that raises and a   *)
(* conditional edge whose route has no entry in its table both stop the    *)
(* run with an exception: cgPc = "raised".                                 *)
VARIABLES
    cgPc,     \* "idle", the node about to run, "END" or "raised"
    cgState,  \* ChatState: safeguard_label, error_code, route, turn_count, summary
    cgPath    \* the nodes that have run, in order

cgVars == <<cgPc, cgState, cgPath>>

ChatGraphIdle ==
    /\ cgPc = "idle"
    /\ cgState = [safeguard_label |-> None, error_code |-> None, route |-> None,
                  turn_count |-> 0, summary |-> FALSE]
    /\ cgPath = <<>>

\* turn_count values of the run's input state, on both sides of the threshold
MaxTurnCount == 6

ChatTurnCounts == 0..MaxTurnCount

\* what the safeguard model call returned, already stripped ("": no output)
SafeguardOutputs == {"", "PASS", "pii", "HARMFUL", "PROMPT_INJECTION", "maybe"}

\* str.upper on the outputs above
Upper(raw) == IF raw = "pii" THEN "PII" ELSE IF raw = "maybe" THEN "MAYBE" ELSE raw

\* safeguard_node._normalize_label
ChatNormalizeLabel(raw) ==
    LET cleaned == Upper(raw) IN
    IF cleaned \in {"PASS", "PII", "HARMFUL", "PROMPT_INJECTION"} THEN cleaned ELSE "PASS"

\* SummaryRoutePolicy.decide with its default threshold
ChatSummaryThreshold == 5

SummaryRoute(turn_count) == IF turn_count > ChatSummaryThreshold THEN "summarize" ELSE "end"

\* ErrorRoutePolicy.decide: the update for a truthy error_code, else None
ErrorRoute(error_code) == IF IsNone(error_code) THEN None ELSE Some("fallback")

\* decide_summary_node: the route it writes
DecideSummaryRoute(state) ==
    LET error_route == ErrorRoute(state.error_code) IN
    IF ~IsNone(error_route) THEN error_route[1] ELSE SummaryRoute(state.turn_count)

\* the conditional-edge table of decide_summary (None: no entry)
DecideSummaryEdges(route) ==
    IF route = "summarize" THEN Some("summarize")
    ELSE IF route = "end" THEN Some("END")
    ELSE None

\* FallbackNode.run: the error_code after its update
FallbackErrorCode(state) ==
    IF IsNone(state.error_code) /\ ~IsNone(state.safeguard_label)
       /\ state.safeguard_label # Some("PASS")
    THEN Some("SAFEGUARD") ELSE state.error_code

\* ChatGraph.run: invoke on the input state
CgRun(turn_count) ==
    /\ cgPc = "idle"
    /\ cgState' = [cgState EXCEPT !.turn_count = turn_count]
    /\ cgPc' = "safeguard"
    /\ UNCHANGED cgPath

\* safeguard_node, then _route_by_safeguard
CgSafeguard(raw) ==
    /\ cgPc = "safeguard"
    /\ cgPath' = Append(cgPath, "safeguard")
    /\ IF raw = "" /\ ~HasErrorCode("MODEL")
       THEN /\ cgPc' = "raised"
            /\ UNCHANGED cgState
       ELSE LET label == ChatNormalizeLabel(raw) IN
            /\ cgState' = [cgState EXCEPT !.safeguard_label = Some(label),
                                          !.error_code = IF raw = "" THEN Some("MODEL") ELSE @]
            /\ cgPc' = IF label = "PASS" THEN "answer" ELSE "fallback"

\* answer_node, then _route_after_answer; out is the model call's outcome
CgAnswer(out) ==
    /\ cgPc = "answer"
    /\ cgPath' = Append(cgPath, "answer")
    /\ IF out = "empty" /\ ~HasErrorCode("MODEL")
       THEN /\ cgPc' = "raised"
            /\ UNCHANGED cgState
       ELSE LET code == IF out = "empty" THEN Some("MODEL")
                        ELSE IF out = "invalid" THEN Some("VALIDATION")
                        ELSE cgState.error_code IN
            /\ cgState' = [cgState EXCEPT !.error_code = code]
            /\ cgPc' = IF IsNone(code) THEN "append_history" ELSE "fallback"

\* FallbackNode.run, then the edge to append_history
CgFallback ==
    /\ cgPc = "fallback"
    /\ cgPath' = Append(cgPath, "fallback")
    /\ cgState' = [cgState EXCEPT !.error_code = FallbackErrorCode(cgState)]
    /\ cgPc' = "append_history"

\* append_history_node (turn_count goes through the add_turn reducer)
CgAppendHistory ==
    /\ cgPc = "append_history"
    /\ cgPath' = Append(cgPath, "append_history")
    /\ cgState' = [cgState EXCEPT !.turn_count = @ + 1]
    /\ cgPc' = "decide_summary"

\* decide_summary_node, then the conditional edge on state["route"]
CgDecideSummary ==
    /\ cgPc = "decide_summary"
    /\ cgPath' = Append(cgPath, "decide_summary")
    /\ LET route == DecideSummaryRoute(cgState)
           next == DecideSummaryEdges(route) IN
       /\ cgState' = [cgState EXCEPT !.route = Some(route)]
       /\ cgPc' = IF IsNone(next) THEN "raised" ELSE next[1]

\* SummaryNode.run, then the edge to END
CgSummarize(out) ==
    /\ cgPc = "summarize"
    /\ cgPath' = Append(cgPath, "summarize")
    /\ IF out = "error" /\ ~HasErrorCode("MODEL")
       THEN /\ cgPc' = "raised"
            /\ UNCHANGED cgState
       ELSE /\ cgState' = [cgState EXCEPT
                              !.summary = (out = "ok"),
                              !.error_code = IF out = "timeout" THEN Some("TIMEOUT")
                                             ELSE IF out = "blank" THEN Some("VALIDATION")
                                             ELSE IF out = "error" THEN Some("MODEL")
                                             ELSE @]
            /\ cgPc' = "END"

-----------------------------------------------------------------------------
(* fourthsession housing agent graph: the graph HousingAgentGraphBuilder   *)
(* builds, invoked by HousingAgentService.handle; one step per node        *)
(* together with the edge that leaves it.  Lists are kept as "is it        *)
(* non-empty": errors and tool_results only ever grow.                     *)
VARIABLES
    haPc,       \* "idle", the node about to run, or "END"
    haState,    \* retry_count, max_retries, plan_ok, plan_valid, errors,
                \* tool_results, answer (a non-blank string), finalized
    haReturns   \* how often the feedback edge has led back to plan

haVars == <<haPc, haState, haReturns>>

MaxRetries == 3

HousingAgentIdle ==
    /\ haPc = "idle"
    /\ haState = [retry_count |-> 0, max_retries |-> 0, plan_ok |-> FALSE,
                  plan_valid |-> FALSE, errors |-> FALSE, tool_results |-> FALSE,
                  answer |-> FALSE, finalized |-> FALSE]
    /\ haReturns = 0

\* FeedbackLoopNode: can_retry, one retry too generous
CanRetryOnceMore(state) == state.retry_count <= state.max_retries
\* FeedbackLoopNode: can_retry
CanRetry(state) == state.retry_count < state.max_retries

\* FeedbackLoopNode.__call__: the state after its update
FeedbackUpdate(state) ==
    IF ~state.answer /\ CanRetry(state)
    THEN [state EXCEPT !.errors = TRUE, !.finalized = FALSE, !.retry_count = @ + 1]
    ELSE LET errors == state.errors \/ ~state.answer IN
         IF errors /\ ~state.tool_results /\ CanRetry(state)
         THEN [state EXCEPT !.errors = TRUE, !.finalized = FALSE, !.retry_count = @ + 1]
         ELSE [state EXCEPT !.answer = TRUE, !.errors = errors, !.finalized = TRUE]

\* HousingAgentGraphBuilder._route_after_feedback
RouteAfterFeedback(state) == IF state.finalized THEN "answer" ELSE "plan"

\* HousingAgentService.handle: invoke on the initial state
HaInvoke(max_retries) ==
    /\ haPc = "idle"
    /\ haState' = [haState EXCEPT !.max_retries = max_retries]
    /\ haPc' = "plan"
    /\ UNCHANGED haReturns

\* PlanNode: the generated plan (one that validates or not), or the fallback
\* plan with an error added
HaPlan(plan_ok, failed) ==
    /\ haPc = "plan"
    /\ haState' = [haState EXCEPT !.plan_ok = plan_ok, !.errors = @ \/ failed]
    /\ haPc' = "validate"
    /\ UNCHANGED haReturns

\* ValidatePlanNode: an invalid plan adds errors and counts as a retry
HaValidate ==
    /\ haPc = "validate"
    /\ haState' = IF haState.plan_ok
                  THEN [haState EXCEPT !.plan_valid = TRUE]
                  ELSE [haState EXCEPT !.plan_valid = FALSE, !.errors = TRUE,
                                       !.retry_count = @ + 1]
    /\ haPc' = "execute"
    /\ UNCHANGED haReturns

\* ExecuteNode: skipped with an error for an unvalidated plan; otherwise the
\* steps give results, errors, or both
HaExecute(results, failed) ==
    /\ haPc = "execute"
    /\ haState' = IF ~haState.plan_valid
                  THEN [haState EXCEPT !.errors = TRUE]
                  ELSE [haState EXCEPT !.tool_results = @ \/ results,
                                       !.errors = @ \/ failed]
    /\ haPc' = "merge"
    /\ UNCHANGED haReturns

\* MergeResultNode: every branch writes a non-blank answer
HaMerge ==
    /\ haPc = "merge"
    /\ haState' = [haState EXCEPT !.answer = TRUE]
    /\ haPc' = "feedback"
    /\ UNCHANGED haReturns

\* FeedbackLoopNode, then the conditional edge
HaFeedback ==
    /\ haPc = "feedback"
    /\ haState' = FeedbackUpdate(haState)
    /\ haPc' = RouteAfterFeedback(haState')
    /\ haReturns' = IF RouteAfterFeedback(haState') = "plan" THEN haReturns + 1 ELSE haReturns

\* AnswerNode, then the edge to END
HaAnswer ==
    /\ haPc = "answer"
    /\ haState' = [haState EXCEPT !.answer = TRUE, !.finalized = TRUE]
    /\ haPc' = "END"
    /\ UNCHANGED haReturns

-----------------------------------------------------------------------------
(* secondsession InMemoryCheckpointer: __init__, save and load_latest.     *)
(* A thread id is a string of atoms that may hold ":"; a version is        *)
(* written as one digit; a checkpoint id is thread_id + ":" + version.     *)
(* Snapshots are kept by their state (the metadata is stored the same way).*)
VARIABLES
    ckPc,        \* "new" before __init__, "ready" after
    ckKeepLast,  \* self._keep_last: None or Some(integer)
    ckStore,     \* self._store: thread id -> set of [checkpoint_id, state]
    ckVersion,   \* self._version: thread id -> latest version (0: no entry)
    ckLog        \* the last two calls, oldest first: [op, thread, state, ret]

ckVars == <<ckPc, ckKeepLast, ckStore, ckVersion, ckLog>>

MaxSaves == 4

ThreadIds == {<<"t">>, <<"t", ":", "2">>}

SnapshotStates == {"s1", "s2"}

KeepLastSettings == {None} \cup {Some(k) : k \in -1..3}

CheckpointerIdle ==
    /\ ckPc = "new"
    /\ ckKeepLast = None
    /\ ckStore = [t \in ThreadIds |-> {}]
    /\ ckVersion = [t \in ThreadIds |-> 0]
    /\ ckLog = <<>>

\* the decimal digits
Digits == <<"0", "1", "2", "3", "4", "5", "6", "7", "8", "9">>

\* f"{thread_id}:{version}", for a version of one digit
CheckpointId(thread_id, version) == thread_id \o <<":", Digits[version + 1]>>

RECURSIVE LastPart(_)
\* checkpoint_id.split(":")[-1]
LastPart(id) ==
    IF id = <<>> THEN <<>>
    ELSE IF id[Len(id)] = ":" THEN <<>>
    ELSE Append(LastPart(SubSeq(id, 1, Len(id) - 1)), id[Len(id)])

\* int(...) of the last part: None where it raises ValueError
ParseVersion(id) ==
    LET part == LastPart(id) IN
    IF Len(part) = 1 /\ \E d \in 0..9 : Digits[d + 1] = part[1]
    THEN Some(CHOOSE d \in 0..9 : Digits[d + 1] = part[1])
    ELSE None

\* a lower bound that keeps one snapshot more than keep_last
MinVersionKeepingOneMore(latest_version, keep_last) ==
    IF latest_version - keep_last > 1 THEN latest_version - keep_last ELSE 1
\* _cleanup: min_version
MinVersion(latest_version, keep_last) ==
    IF latest_version - keep_last + 1 > 1 THEN latest_version - keep_last + 1 ELSE 1

\* InMemoryCheckpointer._cleanup: the thread's snapshots after it
Cleanup(snapshots, latest_version) ==
    IF IsNone(ckKeepLast) THEN snapshots
    ELSE IF ckKeepLast[1] <= 0 THEN {}
    ELSE LET min_version == MinVersion(latest_version, ckKeepLast[1]) IN
         {s \in snapshots :
            LET version == ParseVersion(s.checkpoint_id) IN
            IsNone(version) \/ ~(version[1] < min_version)}

\* InMemoryCheckpointer.load
Load(thread_id, checkpoint_id) ==
    IF \E s \in ckStore[thread_id] : s.checkpoint_id = checkpoint_id
    THEN Some(CHOOSE s \in ckStore[thread_id] : s.checkpoint_id = checkpoint_id)
    ELSE None

\* InMemoryCheckpointer.load_latest
LoadLatest(thread_id) ==
    IF ckVersion[thread_id] = 0 THEN None
    ELSE Load(thread_id, CheckpointId(thread_id, ckVersion[thread_id]))

\* the log keeps the last two calls
Logged(call) == IF ckLog = <<>> THEN <<call>> ELSE <<ckLog[Len(ckLog)], call>>

CkInit(keep_last) ==
    /\ ckPc = "new"
    /\ ckKeepLast' = keep_last
    /\ ckPc' = "ready"
    /\ UNCHANGED <<ckStore, ckVersion, ckLog>>

CkSave(thread_id, state) ==
    /\ ckPc = "ready"
    /\ ckVersion[thread_id] < MaxSaves
    /\ LET version == ckVersion[thread_id] + 1
           checkpoint_id == CheckpointId(thread_id, version)
           stored == {s \in ckStore[thread_id] : s.checkpoint_id # checkpoint_id}
                        \cup {[checkpoint_id |-> checkpoint_id, state |-> state]}
       IN /\ ckVersion' = [ckVersion EXCEPT ![thread_id] = version]
          /\ ckStore' = [ckStore EXCEPT ![thread_id] = Cleanup(stored, version)]
          /\ ckLog' = Logged([op |-> "save", thread |-> thread_id, state |-> Some(state),
                              ret |-> Some(checkpoint_id)])
    /\ UNCHANGED <<ckPc, ckKeepLast>>

CkLoadLatest(thread_id) ==
    /\ ckPc = "ready"
    /\ ckLog' = Logged([op |-> "load_latest", thread |-> thread_id, state |-> None,
                        ret |-> LoadLatest(thread_id)])
    /\ UNCHANGED <<ckPc, ckKeepLast, ckStore, ckVersion>>

-----------------------------------------------------------------------------
(* Specifications: one per subsystem; the others stay idle.                *)
xtVars == <<hjVars, lgVars, cgVars, haVars, ckVars>>

FurtherIdle ==
    HousingJobIdle /\ CallLogIdle /\ ChatGraphIdle /\ HousingAgentIdle /\ CheckpointerIdle

lfVars == <<scVars, saVars, qdVars, xtVars>>

LeafIdle == ScoreIdle /\ StreamAnswerIdle /\ QueryDecomposeIdle /\ FurtherIdle

rtVars == <<asVars, mgVars, ahVars, lfVars>>

RetrievalIdle == AsyncSearchIdle /\ MergeIdle /\ AdaptiveHydeIdle /\ LeafIdle

vars == <<svcVars, rjsVars, cwVars, csVars, jqVars, eqVars, plVars, rtVars>>

InitRag == RagInit /\ WorkerInit /\ QueueInit /\ EventQueueIdle /\ PipelineInit /\ RetrievalIdle

NextRag ==
    \/ SvcGraphRaises /\ UNCHANGED <<rjsVars, cwVars, csVars, jqVars, eqVars, plVars, rtVars>>
    \/ SvcGraphReturns /\ UNCHANGED <<rjsVars, cwVars, csVars, jqVars, eqVars, plVars, rtVars>>
    \/ SvcYieldToken /\ UNCHANGED <<rjsVars, cwVars, csVars, jqVars, eqVars, plVars, rtVars>>
    \/ SvcYieldTokenEnd /\ UNCHANGED <<rjsVars, cwVars, csVars, jqVars, eqVars, plVars, rtVars>>
    \/ SvcYieldReferences /\ UNCHANGED <<rjsVars, cwVars, csVars, jqVars, eqVars, plVars, rtVars>>
    \/ SvcSourcesRaise /\ UNCHANGED <<rjsVars, cwVars, csVars, jqVars, eqVars, plVars, rtVars>>
    \/ SvcYieldEmptyReferences /\ UNCHANGED <<rjsVars, cwVars, csVars, jqVars, eqVars, plVars, rtVars>>
    \/ SvcYieldDone /\ UNCHANGED <<rjsVars, cwVars, csVars, jqVars, eqVars, plVars, rtVars>>
    \/ \E j \in RagJobIds : RjsCreateJob(j) /\ UNCHANGED <<svcVars, cwVars, csVars, jqVars, eqVars, plVars, rtVars>>
    \/ \E j \in RagJobIds : RjsStreamUnknownJob(j) /\ UNCHANGED <<svcVars, cwVars, csVars, jqVars, eqVars, plVars, rtVars>>
    \/ \E j \in RagJobIds : RjsStreamEvents(j) /\ UNCHANGED <<svcVars, cwVars, csVars, jqVars, eqVars, plVars, rtVars>>
    \/ \E j \in RagJobIds : RjsCancel(j) /\ UNCHANGED <<svcVars, cwVars, csVars, jqVars, eqVars, plVars, rtVars>>

SpecRag == InitRag /\ [][NextRag]_vars

InitWorker == WorkerInit /\ RagIdle /\ QueueInit /\ EventQueueIdle /\ PipelineInit /\ RetrievalIdle

NextWorker ==
    \/ CreateJobEnqueue /\ UNCHANGED <<svcVars, rjsVars, jqVars, eqVars, plVars, rtVars>>
    \/ CreateJobSetStatus /\ UNCHANGED <<svcVars, rjsVars, jqVars, eqVars, plVars, rtVars>>
    \/ CancelSetFlag /\ UNCHANGED <<svcVars, rjsVars, jqVars, eqVars, plVars, rtVars>>
    \/ CancelSetStatus /\ UNCHANGED <<svcVars, rjsVars, jqVars, eqVars, plVars, rtVars>>
    \/ WorkerDequeue /\ UNCHANGED <<svcVars, rjsVars, jqVars, eqVars, plVars, rtVars>>
    \/ WorkerCheckPre /\ UNCHANGED <<svcVars, rjsVars, jqVars, eqVars, plVars, rtVars>>
    \/ WorkerPreCancelled /\ UNCHANGED <<svcVars, rjsVars, jqVars, eqVars, plVars, rtVars>>
    \/ WorkerSetRunning /\ UNCHANGED <<svcVars, rjsVars, jqVars, eqVars, plVars, rtVars>>
    \/ WorkerPushJobStart /\ UNCHANGED <<svcVars, rjsVars, jqVars, eqVars, plVars, rtVars>>
    \/ WorkerGraphReturns /\ UNCHANGED <<svcVars, rjsVars, jqVars, eqVars, plVars, rtVars>>
    \/ WorkerGraphRaises /\ UNCHANGED <<svcVars, rjsVars, jqVars, eqVars, plVars, rtVars>>
    \/ WorkerCheckPost /\ UNCHANGED <<svcVars, rjsVars, jqVars, eqVars, plVars, rtVars>>
    \/ WorkerPostCancelled /\ UNCHANGED <<svcVars, rjsVars, jqVars, eqVars, plVars, rtVars>>
    \/ WorkerPushResult /\ UNCHANGED <<svcVars, rjsVars, jqVars, eqVars, plVars, rtVars>>
    \/ WorkerCheckToken /\ UNCHANGED <<svcVars, rjsVars, jqVars, eqVars, plVars, rtVars>>
    \/ WorkerTokenCancelled /\ UNCHANGED <<svcVars, rjsVars, jqVars, eqVars, plVars, rtVars>>
    \/ WorkerPushToken /\ UNCHANGED <<svcVars, rjsVars, jqVars, eqVars, plVars, rtVars>>
    \/ WorkerPushJobEnd /\ UNCHANGED <<svcVars, rjsVars, jqVars, eqVars, plVars, rtVars>>
    \/ WorkerSetDone /\ UNCHANGED <<svcVars, rjsVars, jqVars, eqVars, plVars, rtVars>>
    \/ WorkerExceptSetStatus /\ UNCHANGED <<svcVars, rjsVars, jqVars, eqVars, plVars, rtVars>>
    \/ WorkerExceptPushError /\ UNCHANGED <<svcVars, rjsVars, jqVars, eqVars, plVars, rtVars>>
    \/ WorkerFinally /\ UNCHANGED <<svcVars, rjsVars, jqVars, eqVars, plVars, rtVars>>
    \/ ConsumerPop /\ UNCHANGED <<svcVars, rjsVars, jqVars, eqVars, plVars, rtVars>>
    \/ ConsumerReadStatus /\ UNCHANGED <<svcVars, rjsVars, jqVars, eqVars, plVars, rtVars>>
    \/ ConsumerWriteStatus /\ UNCHANGED <<svcVars, rjsVars, jqVars, eqVars, plVars, rtVars>>

SpecWorker == InitWorker /\ [][NextWorker]_vars

OthersOfWorker == <<svcVars, rjsVars, jqVars, eqVars, plVars, rtVars>>

\* a call of create_job or cancel that has begun runs to its end
ClientCallStep == (CreateJobSetStatus \/ CancelSetStatus) /\ UNCHANGED OthersOfWorker

\* the worker thread: run_forever polls and processes without end
WorkerThreadStep ==
    /\ \/ WorkerDequeue \/ WorkerCheckPre \/ WorkerPreCancelled \/ WorkerSetRunning
       \/ WorkerPushJobStart \/ WorkerGraphReturns \/ WorkerGraphRaises \/ WorkerCheckPost
       \/ WorkerPostCancelled \/ WorkerPushResult \/ WorkerCheckToken
       \/ WorkerTokenCancelled \/ WorkerPushToken \/ WorkerPushJobEnd \/ WorkerSetDone
       \/ WorkerExceptSetStatus \/ WorkerExceptPushError \/ WorkerFinally
    /\ UNCHANGED OthersOfWorker

\* the stream_events generator, iterated by the response until it ends
ConsumerStep ==
    (ConsumerPop \/ ConsumerReadStatus \/ ConsumerWriteStatus) /\ UNCHANGED OthersOfWorker

\* the worker specification with every thread scheduled again and again
SpecWorkerLive ==
    /\ SpecWorker
    /\ WF_vars(ClientCallStep)
    /\ WF_vars(WorkerThreadStep)
    /\ WF_vars(ConsumerStep)

InitQueue == QueueInit /\ RagIdle /\ WorkerInit /\ EventQueueIdle /\ PipelineInit /\ RetrievalIdle

NextQueue ==
    \/ \E q \in {"second", "third"} : \E p \in JobPayloads(jqNextId) :
          EnqueueValidated(q, p) /\ UNCHANGED <<svcVars, rjsVars, cwVars, csVars, eqVars, plVars, rtVars>>
    \/ \E p \in JobPayloads(jqNextId) :
          EnqueueFourth(p) /\ UNCHANGED <<svcVars, rjsVars, cwVars, csVars, eqVars, plVars, rtVars>>
    \/ \E q \in {"second", "third"} : \E w \in QueueWorkers :
          DequeueValidated(q, w) /\ UNCHANGED <<svcVars, rjsVars, cwVars, csVars, eqVars, plVars, rtVars>>
    \/ \E w \in QueueWorkers :
          DequeueFourth(w) /\ UNCHANGED <<svcVars, rjsVars, cwVars, csVars, eqVars, plVars, rtVars>>

SpecQueue == InitQueue /\ [][NextQueue]_vars

InitEventQueue == EventQueueInit /\ RagIdle /\ WorkerInit /\ QueueInit /\ PipelineInit /\ RetrievalIdle

NextEventQueue ==
    \/ \E j \in EventJobIds : \E e \in EventInputs(j, eqCount + 1) :
          PushEvent(j, e) /\ UNCHANGED <<svcVars, rjsVars, cwVars, csVars, jqVars, plVars, rtVars>>
    \/ \E j \in EventJobIds :
          PopEvent(j) /\ UNCHANGED <<svcVars, rjsVars, cwVars, csVars, jqVars, plVars, rtVars>>
    \/ \E j \in EventJobIds :
          ExpireKey(j) /\ UNCHANGED <<svcVars, rjsVars, cwVars, csVars, jqVars, plVars, rtVars>>

SpecEventQueue == InitEventQueue /\ [][NextEventQueue]_vars

\* the queue under producers that push events of every shape
NextEventSchema ==
    \/ \E j \in EventJobIds : \E e \in SchemaInputs(j, eqCount + 1) :
          PushEvent(j, e) /\ UNCHANGED <<svcVars, rjsVars, cwVars, csVars, jqVars, plVars, rtVars>>
    \/ \E j \in EventJobIds :
          PopEvent(j) /\ UNCHANGED <<svcVars, rjsVars, cwVars, csVars, jqVars, plVars, rtVars>>

SpecEventSchema == InitEventQueue /\ [][NextEventSchema]_vars

InitPipeline == PipelineInit /\ RagIdle /\ WorkerInit /\ QueueInit /\ EventQueueIdle /\ RetrievalIdle

NextPipeline ==
    \/ \E q \in Questions : \E l \in Languages : \E t \in InputTurnCounts :
        \E h \in InputHistories :
          PlRun(q, l, t, h) /\ UNCHANGED <<svcVars, rjsVars, cwVars, csVars, jqVars, eqVars, rtVars>>
    \/ PlSafeguard /\ UNCHANGED <<svcVars, rjsVars, cwVars, csVars, jqVars, eqVars, rtVars>>
    \/ PlRetrieve /\ UNCHANGED <<svcVars, rjsVars, cwVars, csVars, jqVars, eqVars, rtVars>>
    \/ PlPolicyFilter /\ UNCHANGED <<svcVars, rjsVars, cwVars, csVars, jqVars, eqVars, rtVars>>
    \/ PlPolicyFilterRaises /\ UNCHANGED <<svcVars, rjsVars, cwVars, csVars, jqVars, eqVars, rtVars>>
    \/ PlNormalize /\ UNCHANGED <<svcVars, rjsVars, cwVars, csVars, jqVars, eqVars, rtVars>>
    \/ PlMerge /\ UNCHANGED <<svcVars, rjsVars, cwVars, csVars, jqVars, eqVars, rtVars>>
    \/ PlPostprocess /\ UNCHANGED <<svcVars, rjsVars, cwVars, csVars, jqVars, eqVars, rtVars>>
    \/ PlGenerate /\ UNCHANGED <<svcVars, rjsVars, cwVars, csVars, jqVars, eqVars, rtVars>>
    \/ PlSummary /\ UNCHANGED <<svcVars, rjsVars, cwVars, csVars, jqVars, eqVars, rtVars>>
    \/ PlEnd /\ UNCHANGED <<svcVars, rjsVars, cwVars, csVars, jqVars, eqVars, rtVars>>

SpecPipeline == InitPipeline /\ [][NextPipeline]_vars


InitRetrieval == AsyncSearchIdle /\ MergeIdle /\ AdaptiveHydeIdle /\ LeafIdle /\ RagIdle /\ WorkerInit
              /\ QueueInit /\ EventQueueIdle /\ PipelineInit

OthersOfSearch == <<svcVars, rjsVars, cwVars, csVars, jqVars, eqVars, plVars, mgVars, ahVars, lfVars>>

NextSearch ==
    \/ \E queries \in QueryLists : \E retriever \in {"none", "async", "sync", "bare"} :
          AsRun(queries, retriever) /\ UNCHANGED OthersOfSearch
    \/ \E i \in DOMAIN asTask : AsAcquire(i) /\ UNCHANGED OthersOfSearch
    \/ \E i \in DOMAIN asTask : \E docs \in SearchAnswers :
          AsSearchReturns(i, docs) /\ UNCHANGED OthersOfSearch
    \/ \E i \in DOMAIN asTask : AsSearchRaises(i) /\ UNCHANGED OthersOfSearch
    \/ \E i \in DOMAIN asTask : AsSearchTimesOut(i) /\ UNCHANGED OthersOfSearch
    \/ \E i \in asThreads : AsThreadEnds(i) /\ UNCHANGED OthersOfSearch
    \/ AsGather /\ UNCHANGED OthersOfSearch

SpecSearch == InitRetrieval /\ [][NextSearch]_vars

OthersOfMerge == <<svcVars, rjsVars, cwVars, csVars, jqVars, eqVars, plVars, asVars, ahVars, lfVars>>

NextMerge ==
    \/ \E groups \in GroupLists : MgRun(groups) /\ UNCHANGED OthersOfMerge
    \/ MgRunAgain /\ UNCHANGED OthersOfMerge
    \/ \E docs \in DocLists : PpRun(docs) /\ UNCHANGED OthersOfMerge

SpecMerge == InitRetrieval /\ [][NextMerge]_vars

OthersOfHyde == <<svcVars, rjsVars, cwVars, csVars, jqVars, eqVars, plVars, asVars, mgVars, lfVars>>

NextHyde ==
    \/ \E question \in HydeQuestions : \E store \in {"none", "store"} :
          AhRun(question, store) /\ UNCHANGED OthersOfHyde
    \/ \E docs \in BaseAnswers : AhSearch(docs) /\ UNCHANGED OthersOfHyde
    \/ AhSearchRaises /\ UNCHANGED OthersOfHyde
    \/ AhJudge /\ UNCHANGED OthersOfHyde
    \/ \E docs \in HydeAnswers : AhHyde(docs) /\ UNCHANGED OthersOfHyde
    \/ AhHydeFails /\ UNCHANGED OthersOfHyde
    \/ \E docs \in HydeAnswers : AhHydeFallbackSearch(docs) /\ UNCHANGED OthersOfHyde
    \/ AhHydeFallbackSearchRaises /\ UNCHANGED OthersOfHyde
    \/ \E outcome \in {"ok", "Exception"} : AhMerge(outcome) /\ UNCHANGED OthersOfHyde
    \/ AhEnd /\ UNCHANGED OthersOfHyde

SpecHyde == InitRetrieval /\ [][NextHyde]_vars

OthersOfLeaf ==
    <<svcVars, rjsVars, cwVars, csVars, jqVars, eqVars, plVars, asVars, mgVars, ahVars>>

OthersOfScore == <<OthersOfLeaf, saVars, qdVars, xtVars>>

NextScore ==
    \/ \E d1 \in Distances : \E d2 \in Distances :
          ScNormalizeScore(d1, d2) /\ UNCHANGED OthersOfScore
    \/ \E d1 \in Distances : \E d2 \in Distances :
          ScNodeNormalize(d1, d2) /\ UNCHANGED OthersOfScore

SpecScore == InitRetrieval /\ [][NextScore]_vars

OthersOfStreamAnswer == <<OthersOfLeaf, scVars, qdVars, xtVars>>

NextStreamAnswer == \E answer \in Answers : SaRun(answer) /\ UNCHANGED OthersOfStreamAnswer

SpecStreamAnswer == InitRetrieval /\ [][NextStreamAnswer]_vars

OthersOfDecompose == <<OthersOfLeaf, scVars, saVars, xtVars>>

NextDecompose ==
    \E question \in DecomposeQuestions : \E llm \in DecomposeLlms :
        QdRun(question, llm) /\ UNCHANGED OthersOfDecompose

SpecDecompose == InitRetrieval /\ [][NextDecompose]_vars

OthersOfHousingJob == <<OthersOfLeaf, scVars, saVars, qdVars, lgVars, cgVars, haVars, ckVars>>

NextHousingJob ==
    \/ HjCreate /\ UNCHANGED OthersOfHousingJob
    \/ HjEnqueue /\ UNCHANGED OthersOfHousingJob
    \/ HjEnqueueRaises /\ UNCHANGED OthersOfHousingJob
    \/ HjCancelGet /\ UNCHANGED OthersOfHousingJob
    \/ HjCancelReturnsTerminal /\ UNCHANGED OthersOfHousingJob
    \/ HjCancelUpdate /\ UNCHANGED OthersOfHousingJob
    \/ HjCancelPush /\ UNCHANGED OthersOfHousingJob
    \/ HjDequeue /\ UNCHANGED OthersOfHousingJob
    \/ HjSetRunning /\ UNCHANGED OthersOfHousingJob
    \/ HjPushRunning /\ UNCHANGED OthersOfHousingJob
    \/ HjHandleReturns /\ UNCHANGED OthersOfHousingJob
    \/ HjHandleRaises /\ UNCHANGED OthersOfHousingJob
    \/ HjSetCompleted /\ UNCHANGED OthersOfHousingJob
    \/ HjPushResult /\ UNCHANGED OthersOfHousingJob
    \/ HjSetFailed /\ UNCHANGED OthersOfHousingJob
    \/ HjPushError /\ UNCHANGED OthersOfHousingJob

SpecHousingJob == InitRetrieval /\ [][NextHousingJob]_vars

OthersOfCallLog == <<cwVars, csVars, jqVars, eqVars, plVars, asVars, mgVars, ahVars, scVars, saVars, qdVars, hjVars, cgVars, haVars, ckVars>>

NextCallLog ==
    \/ SvcGraphRaises /\ UNCHANGED <<rjsVars, lgVars, OthersOfCallLog>>
    \/ SvcGraphReturns /\ UNCHANGED <<rjsVars, lgVars, OthersOfCallLog>>
    \/ SvcYieldToken /\ UNCHANGED <<rjsVars, lgVars, OthersOfCallLog>>
    \/ SvcYieldTokenEnd /\ UNCHANGED <<rjsVars, lgVars, OthersOfCallLog>>
    \/ SvcYieldReferences /\ UNCHANGED <<rjsVars, lgVars, OthersOfCallLog>>
    \/ SvcSourcesRaise /\ UNCHANGED <<rjsVars, lgVars, OthersOfCallLog>>
    \/ SvcYieldEmptyReferences /\ UNCHANGED <<rjsVars, lgVars, OthersOfCallLog>>
    \/ SvcYieldDone /\ UNCHANGED <<rjsVars, lgVars, OthersOfCallLog>>
    \/ RjsCreateJob(LoggedJobId) /\ UNCHANGED <<svcVars, lgVars, OthersOfCallLog>>
    \/ RjsStreamUnknownJob(LoggedJobId) /\ UNCHANGED <<svcVars, lgVars, OthersOfCallLog>>
    \/ LoggedStreamEvents /\ UNCHANGED <<svcVars, OthersOfCallLog>>
    \/ LoggedCancel /\ UNCHANGED <<svcVars, OthersOfCallLog>>
    \/ LoggedCancelFinished /\ UNCHANGED <<svcVars, OthersOfCallLog>>

SpecCallLog == InitRag /\ [][NextCallLog]_vars

OthersOfChatGraph == <<OthersOfLeaf, scVars, saVars, qdVars, hjVars, lgVars, haVars, ckVars>>

NextChatGraph ==
    \/ \E t \in ChatTurnCounts : CgRun(t) /\ UNCHANGED OthersOfChatGraph
    \/ \E raw \in SafeguardOutputs : CgSafeguard(raw) /\ UNCHANGED OthersOfChatGraph
    \/ \E out \in {"ok", "empty", "invalid"} : CgAnswer(out) /\ UNCHANGED OthersOfChatGraph
    \/ CgFallback /\ UNCHANGED OthersOfChatGraph
    \/ CgAppendHistory /\ UNCHANGED OthersOfChatGraph
    \/ CgDecideSummary /\ UNCHANGED OthersOfChatGraph
    \/ \E out \in {"ok", "timeout", "error", "blank"} : CgSummarize(out) /\ UNCHANGED OthersOfChatGraph

SpecChatGraph == InitRetrieval /\ [][NextChatGraph]_vars

\* the graph runtime keeps stepping a run until it ends or raises
SpecChatGraphLive == SpecChatGraph /\ WF_vars(NextChatGraph)

OthersOfHousingAgent == <<OthersOfLeaf, scVars, saVars, qdVars, hjVars, lgVars, cgVars, ckVars>>

NextHousingAgent ==
    \/ \E n \in 0..MaxRetries : HaInvoke(n) /\ UNCHANGED OthersOfHousingAgent
    \/ \E ok, failed \in BOOLEAN : HaPlan(ok, failed) /\ UNCHANGED OthersOfHousingAgent
    \/ HaValidate /\ UNCHANGED OthersOfHousingAgent
    \/ \E results, failed \in BOOLEAN : HaExecute(results, failed) /\ UNCHANGED OthersOfHousingAgent
    \/ HaMerge /\ UNCHANGED OthersOfHousingAgent
    \/ HaFeedback /\ UNCHANGED OthersOfHousingAgent
    \/ HaAnswer /\ UNCHANGED OthersOfHousingAgent

SpecHousingAgent == InitRetrieval /\ [][NextHousingAgent]_vars

\* the graph runtime keeps stepping a run until it ends
SpecHousingAgentLive == SpecHousingAgent /\ WF_vars(NextHousingAgent)

OthersOfCheckpointer == <<OthersOfLeaf, scVars, saVars, qdVars, hjVars, lgVars, cgVars, haVars>>

NextCheckpointer ==
    \/ \E k \in KeepLastSettings : CkInit(k) /\ UNCHANGED OthersOfCheckpointer
    \/ \E t \in ThreadIds, st \in SnapshotStates :
          CkSave(t, st) /\ UNCHANGED OthersOfCheckpointer
    \/ \E t \in ThreadIds : CkLoadLatest(t) /\ UNCHANGED OthersOfCheckpointer

SpecCheckpointer == InitRetrieval /\ [][NextCheckpointer]_vars

-----------------------------------------------------------------------------
\* position of an event type in the grammar token*, references?, error?, done
EventRank(e) ==
    CASE e.type = "token" -> 0
      [] e.type = "references" -> 1
      [] e.type = "error" -> 2
      [] e.type = "DONE" -> 3
      [] OTHER -> 4

CountType(evs, t) == Cardinality({i \in 1..Len(evs) : evs[i].type = t})

\* evs is a word of token*, references?, error?, done
MatchesGrammar(evs) ==
    /\ evs # <<>>
    /\ evs[Len(evs)].type = "DONE"
    /\ CountType(evs, "DONE") = 1
    /\ CountType(evs, "references") <= 1
    /\ CountType(evs, "error") <= 1
    /\ \A i \in 1..Len(evs) : EventRank(evs[i]) <= 3
    /\ \A i, k \in 1..Len(evs) : i < k => EventRank(evs[i]) <= EventRank(evs[k])

\* C1: every finished RagService.stream response and every event list returned
\* by RagJobService.stream_events is a word of token*, references?, error?,
\* done - exactly one done, nothing after it - whether the run succeeded,
\* failed in the pipeline or failed while streaming; an unfinished stream
\* has not emitted done yet.
C1_EventGrammar ==
    /\ svcPc = "closed" => MatchesGrammar(svcOut)
    /\ svcPc # "closed" => CountType(svcOut, "DONE") = 0
    /\ \A j \in RagJobIds :
         ~IsNone(rjsStream[j]) => MatchesGrammar(rjsStream[j][1])

\* a stream that failed while streaming, and a job whose materialisation
\* failed after tokens had been recorded, have both been returned
C1_Witness ==
    /\ svcPc = "closed" /\ svcFailed /\ svcResult # NoResult
    /\ \E j \in RagJobIds :
         /\ rjsJobs[j].status = "failed"
         /\ ~IsNone(rjsStream[j])
         /\ CountType(rjsStream[j][1], "token") > 0
         /\ CountType(rjsStream[j][1], "error") = 1
    /\ \E j \in RagJobIds :
         /\ rjsJobs[j].status = "canceled"
         /\ ~IsNone(rjsStream[j])

\* C2: once _process_job is over for a dequeued job - graph returned, graph
\* raised, or the job found cancelled at any check - the worker has pushed
\* exactly one done event for it and done is the last event it pushed.
C2_ExactlyOneDoneLast ==
    cwProcessed =>
        /\ cwPushed # <<>>
        /\ cwPushed[Len(cwPushed)].type = "done"
        /\ CountType(cwPushed, "done") = 1

\* C3: a job whose cancel flag was set before the worker dequeued it gets
\* exactly the events error(cancelled), done.
C3_CancelBeforeDequeue ==
    (cwProcessed /\ cwFlagAtDequeue) =>
        /\ Len(cwPushed) = 2
        /\ cwPushed[1].type = "error" /\ cwPushed[1].error_code = "cancelled"
        /\ cwPushed[2].type = "done"

\* C4: a stored terminal status (done, failed, cancelled) is never changed by
\* a step of the worker, of cancel or of the event consumer.
C4_TerminalStatusKept ==
    [][(cwStatus \in TerminalStatuses) => (cwStatus' = cwStatus)]_vars

\* C6: the events the worker pushes after it has observed the cancel flag
\* following the graph run or between two tokens are exactly one
\* error(cancelled) and then one done; in particular no token.
C6_AfterObservedCancel ==
    (cwProcessed /\ ~IsNone(cwObservedAt) /\ cwObservedAt[1][1] \in {"post_graph", "token"}) =>
        LET after == SubSeq(cwPushed, cwObservedAt[1][2] + 1, Len(cwPushed))
        IN /\ Len(after) = 2
           /\ after[1].type = "error" /\ after[1].error_code = "cancelled"
           /\ after[2].type = "done"

\* C5: with several workers polling a job queue concurrently, every enqueued
\* job is returned by at most one dequeue / pop_job call, so no two workers
\* hold the same job.
C5_AtMostOneDequeue ==
    /\ \A id \in DOMAIN jqReturns : jqReturns[id] <= 1
    /\ \A w1, w2 \in QueueWorkers :
         (w1 # w2 /\ ~IsNone(jqHeld[w1]) /\ ~IsNone(jqHeld[w2]))
            => jqHeld[w1][1]["job_id"] # jqHeld[w2][1]["job_id"]

\* two workers polling the same queue hold two different jobs while a third
\* job is still queued
C5_Witness ==
    /\ \E q \in JobQueueNames : Len(jqList[q]) >= 1
    /\ \A w \in QueueWorkers : ~IsNone(jqHeld[w])
    /\ Cardinality(DOMAIN jqReturns) >= 2

-----------------------------------------------------------------------------
\* number of times node occurs in the trace of the current run
Visits(node) == Cardinality({i \in 1..Len(plTrace) : plTrace[i] = node})

PipelineNodes == DOMAIN GraphEdges \cup {"generate"}

\* generate has run in the current run
AfterGenerate == plPc \in {"summary", "END", "returned"}

\* C8: for every input state and every collaborator failure, run visits each
\* stage at most once, reaches END exactly once and returns a state; nothing
\* escapes run as an exception.
C8_RunAlwaysReturns ==
    /\ plPc # "raised"
    /\ \A n \in PipelineNodes : Visits(n) <= 1
    /\ Visits("END") <= 1
    /\ plPc = "returned" => Visits("END") = 1

\* C9: when the safeguard label in the state is not PASS, generate makes no
\* call of the answer generator and returns the blocked template of that
\* label with the label's own error code and no sources; the three blocked
\* labels have three different codes.
C9_BlockedSkipsGeneration ==
    LET label == plState.safeguard_label[1]
        expected ==
            CASE label = "PII" -> [code |-> "pii_blocked", message |-> "MSG_PII"]
              [] label = "HARMFUL" -> [code |-> "harmful_blocked", message |-> "MSG_HARMFUL"]
              [] label = "PROMPT_INJECTION" ->
                    [code |-> "prompt_injection_blocked", message |-> "MSG_PROMPT_INJECTION"]
              [] OTHER -> [code |-> "", message |-> ""]
    IN /\ Cardinality({RagErrorCode[m].code : m \in {"PII", "HARMFUL", "PROMPT_INJECTION"}}) = 3
       /\ Visits("safeguard") = 1 => plState.safeguard_label # None /\ label \in SafeguardLabel
       /\ (AfterGenerate /\ label # "PASS") =>
             /\ plGenCalls = 0
             /\ plState.answer = Some(<<expected.message>>)
             /\ plState.error_code = Some(expected.code)
             /\ plState.sources = <<>>

\* a blocked question whose retrieval found documents went through generate
C9_Witness ==
    /\ plPc = "returned"
    /\ plState.safeguard_label = Some("PROMPT_INJECTION")
    /\ Len(plState.contexts) > 0
    /\ plGenCalls = 0

\* the answer FallbackNode gives for a code string
FallbackOfCode(code) == Some(<<RagErrorCode[FromCode(code)].user_message>>)

\* C10 as stated: once a stage has set error_code it stays set, and generate
\* returns the fallback answer derived from that code without generating.
C10_FallbackFromSetCode ==
    plSetCode # None =>
        /\ plState.error_code # None
        /\ AfterGenerate =>
              /\ plGenCalls = 0
              /\ plState.answer = FallbackOfCode(plSetCode)

\* C10 amended: once a stage has set error_code it stays set and generate does
\* not generate; its fallback answer is derived from that code when the
\* safeguard label is PASS, and is the blocked template with the label's code
\* when the label is PII, HARMFUL or PROMPT_INJECTION.
C10_FallbackFromSetCodeUnlessBlocked ==
    plSetCode # None =>
        /\ plState.error_code # None
        /\ AfterGenerate =>
              /\ plGenCalls = 0
              /\ plState.sources = <<>>
              /\ IF plState.safeguard_label = Some("PASS")
                 THEN /\ plState.error_code = plSetCode
                      /\ plState.answer = FallbackOfCode(plSetCode)
                 ELSE /\ plState.error_code # plSetCode
                      /\ plState.answer = FallbackOfCode(plState.error_code)
                      /\ FromCode(plState.error_code) = plState.safeguard_label[1]

\* retrieval timed out for a question that passed the safeguard, and run returned
C10_Witness ==
    /\ plPc = "returned"
    /\ plSetCode = Some("timeout")
    /\ plState.safeguard_label = Some("PASS")
    /\ plState.answer = Some(<<"MSG_TIMEOUT">>)

-----------------------------------------------------------------------------
\* C11: a request that ends with an error kind (the pipeline result carries
\* an error_code, or the service caught an exception) delivers that kind to
\* the caller: the finished event stream contains an error event.
C11_ErrorKindAttached ==
    (svcPc = "closed" /\ (svcFailed \/ svcResult.error_code # None)) =>
        \E i \in 1..Len(svcOut) : svcOut[i].type = "error"

\* the fixed per-error-kind messages of secondsession ErrorCode
FixedUserMessages == {UserMessage(n) : n \in DOMAIN ErrorCodeValue}

\* C12: no stream event delivered to the end user contains raw exception
\* text: the content of every error event ChatService.stream_events yields
\* is one of the fixed per-error-kind messages.
C12_NoRawExceptionText ==
    \A i \in 1..Len(csOut) :
        csOut[i].type = "error" =>
            csOut[i].content # None /\ csOut[i].content[1] \in FixedUserMessages

\* a document or source item that the policy of the request forbids: its
\* access level is present and not public, or its language is present and
\* differs from the language the request asked for
Forbidden(item, requested) ==
    \/ item.access_level \notin {None, Some("public")}
    \/ /\ requested # None
       /\ item.language # None
       /\ ~(requested[1].kind = "str" /\ item.language[1] = requested[1].v)

\* C13: no document whose access level is present and not public, or whose
\* language is present and differs from the requested language, is in the
\* contexts given to generate or in the sources of the final state.
C13_PolicyFilteredContexts ==
    /\ plPc \in {"generate", "summary", "END", "returned"} =>
           \A i \in 1..Len(plState.contexts) :
               ~Forbidden(plState.contexts[i], plState.language)
    /\ \A i \in 1..Len(plState.sources) :
           ~Forbidden(plState.sources[i], plState.language)

\* a run that retrieved a private document and a document in another
\* language than the requested one returned a state with sources
C13_Witness ==
    /\ plPc = "returned"
    /\ plState.sources # <<>>
    /\ \E i \in 1..Len(plRetrieved) : plRetrieved[i].access_level = Some("private")
    /\ \E i \in 1..Len(plRetrieved) :
           /\ plRetrieved[i].access_level = None
           /\ Forbidden(plRetrieved[i], plState.language)

\* C14: a search that fails or times out leaves the empty list at the
\* position of its query among the searches run, every other search still
\* contributes its normalised documents, and run returns.
C14_FailedSearchIsolated ==
    (asPc = "returned" /\ asTask # <<>>) =>
        /\ Len(asOut) = Len(asTask)
        /\ \A i \in DOMAIN asTask :
               asOut[i] = IF asSearched[i] = None THEN <<>>
                          ELSE AsNormalizeDocs(asSearched[i][1], asNormalizedQueries[i])

\* run returned after one search failed and another returned documents
C14_Witness ==
    /\ asPc = "returned"
    /\ \E i \in DOMAIN asTask : asSearched[i] = None
    /\ \E j \in DOMAIN asTask : asSearched[j] # None /\ asOut[j] # <<>>

\* C15: during one run at most max_concurrency searches are executing
\* against the retrieval capability at any instant.
C15_ConcurrencyBounded == Executing <= MaxConcurrency

\* C16: run returns one result list per input sub-query in input order: the
\* output is as long as the input and the i-th list holds the results of the
\* i-th sub-query.
C16_OneListPerSubQuery ==
    asPc = "returned" =>
        /\ Len(asOut) = Len(asQueries)
        /\ \A i \in 1..Len(asOut) : \A k \in 1..Len(asOut[i]) :
               asOut[i][k].retrieval_query = JoinSplit(asQueries[i])

\* C17: AdaptiveHydeGraph.run never raises, and the list it returns holds
\* every baseline document.
C17_NeverRaisesKeepsBaseline ==
    /\ ahPc # "raised"
    /\ ahPc = "returned" =>
           \A i \in 1..Len(ahState.base_docs) : \E k \in 1..Len(ahOut) :
               ahOut[k].content = ahState.base_docs[i].content

\* C18: for every list of groups G, MergeNode.run([MergeNode.run(G)]) equals
\* MergeNode.run(G).
C18_MergeIdempotent == mgPc = "remerged" => mgRemerged = mgMerged

\* documents of out that carry the source id sid
WithSource(out, sid) == {i \in 1..Len(out) : out[i].source_id = Some(sid)}

SourceIds(out) == {out[i].source_id[1] : i \in {j \in 1..Len(out) : out[j].source_id # None}}

\* C19: in every output of MergeNode.run and of PostprocessNode.run no
\* source id occurs in more than max_per_source documents.
C19_DiversityCap ==
    /\ \A sid \in SourceIds(mgMerged) :
           Cardinality(WithSource(mgMerged, sid)) <= MergeMaxPerSource
    /\ \A sid \in SourceIds(mgRemerged) :
           Cardinality(WithSource(mgRemerged, sid)) <= MergeMaxPerSource
    /\ \A sid \in SourceIds(ppOut) :
           Cardinality(WithSource(ppOut, sid)) <= MaxPerSource

\* the merger ran on groups holding more than max_per_source documents of
\* one source
C19_Witness ==
    /\ mgPc = "merged"
    /\ mgMerged # <<>>
    /\ \E sid \in SourceIds(MergeNormalizeGroups(mgGroups)) :
           Cardinality(WithSource(MergeNormalizeGroups(mgGroups), sid)) > MergeMaxPerSource

\* C20: for every source with more documents in the merger's input than in
\* its output, every kept document of the source scores at least as high as
\* every discarded document of the source.
C20_DiscardsLowestScored ==
    mgPc = "merged" =>
        LET input == MergeNormalizeGroups(mgGroups)
            Kept(sid) == {mgMerged[i] : i \in WithSource(mgMerged, sid)}
            Discarded(sid) == {input[i] : i \in WithSource(input, sid)} \ Kept(sid)
        IN \A sid \in SourceIds(input) :
               Cardinality(WithSource(input, sid)) > Cardinality(WithSource(mgMerged, sid)) =>
                   \A k \in Kept(sid) : \A d \in Discarded(sid) : k.score[1] >= d.score[1]

\* the scores of out never increase from one position to the next
ScoresNonIncreasing(out) ==
    \A i \in 1..Len(out) : \A j \in 1..Len(out) :
        i < j => out[i].score[1] >= out[j].score[1]

\* C21: MergeNode.run returns at most top_k documents, in non-increasing
\* order of similarity score.
C21_AtMostTopKSorted ==
    /\ Len(mgMerged) <= MergeTopK /\ ScoresNonIncreasing(mgMerged)
    /\ Len(mgRemerged) <= MergeTopK /\ ScoresNonIncreasing(mgRemerged)

\* the merger ran on groups that leave more than top_k documents after the
\* diversify step, given in increasing score order
C21_Witness ==
    /\ mgPc = "merged"
    /\ Len(mgMerged) = MergeTopK
    /\ Len(MergeDiversify(MergeDedupe(MergeNormalizeGroups(mgGroups)))) > MergeTopK
    /\ ~ScoresNonIncreasing(MergeNormalizeGroups(mgGroups))
    /\ mgMerged[1].score[1] > mgMerged[MergeTopK].score[1]

\* C22 as stated: for any two distances d1 < d2 the similarity computed for
\* d1 is strictly greater than the similarity computed for d2.
C22_StrictlyDecreasing ==
    scPc # "idle" /\ scDistances[1] < scDistances[2] => scScores[1] > scScores[2]

\* C22: for any two distances d1 < d2 the similarity computed for d1 is
\* greater than or equal to the similarity computed for d2.
C22_NonIncreasing ==
    scPc # "idle" /\ scDistances[1] < scDistances[2] => scScores[1] >= scScores[2]

\* two positive distances d1 < d2 were transformed, to different similarities
C22_Witness ==
    /\ scPc = "merge_node"
    /\ 0 < scDistances[1]
    /\ scDistances[1] < scDistances[2]
    /\ scScores[1] > scScores[2]

\* evs is token{in_progress}*, one token{end} with empty content, one
\* references{end, items}, one done, and nothing else
ExactStream(evs) ==
    /\ Len(evs) >= 3
    /\ LET n == Len(evs) - 3
       IN /\ \A i \in 1..n : evs[i].type = "token" /\ evs[i].status = Some("in_progress")
          /\ evs[n + 1].type = "token"
          /\ evs[n + 1].status = Some("end")
          /\ evs[n + 1].content = Some(<<>>)
          /\ evs[n + 2].type = "references"
          /\ evs[n + 2].status = Some("end")
          /\ evs[n + 2].items # None
          /\ evs[n + 3].type = "DONE"

\* C23: for every finished RagService.stream response, after a success or a
\* failure, the events are zero or more token{in_progress}, then exactly one
\* token{end} with empty content, then exactly one references{end, items},
\* then exactly one done, and nothing else.
C23_ExactStreamShape == svcPc = "closed" => ExactStream(svcOut)

RECURSIVE ConcatInProgress(_)
\* the contents of the token{in_progress} events of evs, concatenated
ConcatInProgress(evs) ==
    IF evs = <<>> THEN <<>>
    ELSE IF Head(evs).type = "token" /\ Head(evs).status = Some("in_progress")
         THEN Head(evs).content[1] \o ConcatInProgress(Tail(evs))
         ELSE ConcatInProgress(Tail(evs))

\* C24: for every answer, concatenating the contents of the emitted
\* token{in_progress} events in emission order yields exactly the answer.
C24_ConcatenationIsAnswer == saPc = "streamed" => ConcatInProgress(saOut) = saAnswer

\* the per-type field rules, on a stored event; the events of this model
\* have no error code field, so the rule for error is its content only
FieldRules(ev) ==
    CASE ev["type"] = "token" ->
            /\ "status" \in DOMAIN ev
            /\ ev["status"] \in {"in_progress", "end"}
            /\ (ev["status"] = "in_progress" => "content" \in DOMAIN ev)
            /\ "items" \notin DOMAIN ev
      [] ev["type"] = "references" ->
            /\ "status" \in DOMAIN ev
            /\ ev["status"] = "end"
            /\ "items" \in DOMAIN ev
            /\ "content" \notin DOMAIN ev
            /\ "index" \notin DOMAIN ev
      [] ev["type"] = "error" ->
            /\ "content" \in DOMAIN ev
            /\ Strip(ev["content"]) # <<>>
      [] ev["type"] = "DONE" -> DOMAIN ev = {"type"}
      [] OTHER -> FALSE

\* C25: push_event appends an event to a job's list only if the event meets
\* the field rules of its type: every event ever appended meets them.
C25_OnlyRuleConformingAppended ==
    \A j \in EventJobIds : \A i \in 1..Len(eqPushed[j]) : FieldRules(eqPushed[j][i])

\* the generate node has run in this run
GenerateRan == \E i \in 1..Len(plTrace) : plTrace[i] = "generate"

\* C26: every branch of _node_generate (blocked, no contexts, failed
\* generation, success) leaves history equal to the input history followed by
\* one user turn and one assistant turn, and turn_count equal to the input
\* turn_count plus 1.
C26_GenerateAppendsOneTurn ==
    GenerateRan =>
        /\ plState.answer # None
        /\ plState.history =
               plInput.history \o <<[role |-> "user", content |-> plState.question],
                                    [role |-> "assistant", content |-> plState.answer[1]]>>
        /\ plState.turn_count = plInput.turn_count + 1

\* a run that came with a history and five turns took a fallback branch of
\* generate
C26_Witness ==
    /\ GenerateRan
    /\ plInput.history # <<>>
    /\ plInput.turn_count = 5
    /\ plState.error_code = Some("llm_failed")
    /\ plState.sources = <<>>

\* the summary node has been chosen or has run in this run
SummaryTaken == plPc = "summary" \/ \E i \in 1..Len(plTrace) : plTrace[i] = "summary"

\* C27: after generate the summary node runs if and only if turn_count
\* exceeds the threshold 5; when it does not, the run goes straight to END
\* and summary is what the input state held.
C27_SummaryIffOverThreshold ==
    GenerateRan =>
        /\ SummaryTaken <=> plState.turn_count > SummaryThreshold
        /\ plState.turn_count <= SummaryThreshold =>
               /\ plPc \in {"END", "returned"}
               /\ plState.summary = plInput.summary

\* a run whose turn_count went over the threshold in generate ran the
\* summary node and returned
C27_Witness ==
    /\ plPc = "returned"
    /\ plInput.turn_count = SummaryThreshold
    /\ plState.turn_count = SummaryThreshold + 1
    /\ SummaryTaken
    /\ plState.summary # None

\* the baseline documents that contain a token of the question
BaselineHits ==
    {i \in 1..Len(ahState.base_docs) :
        \E j \in 1..Len(ahState.base_docs[i].content) :
            ahState.base_docs[i].content[j] \in QuestionTokens(ahState.question)}

\* C28: _node_judge flags the baseline insufficient, and the hyde node is
\* entered, exactly when there is no baseline document or fewer than half of
\* the baseline documents contain a token of the question.
C28_InsufficientIffFewerThanHalf ==
    ahPc \in {"hyde", "merge", "END", "returned"} =>
        LET insufficient ==
                \/ Len(ahState.base_docs) = 0
                \/ 2 * Cardinality(BaselineHits) < Len(ahState.base_docs)
        IN /\ ahState.use_hyde <=> insufficient
           /\ ahPc = "hyde" => insufficient

\* C29: for every question, QueryDecomposeNode.run returns a list of pairwise
\* distinct sub-queries with at least 1 and at most max_sub_queries elements.
C29_OneToMaxDistinct ==
    qdPc = "returned" =>
        /\ Len(qdOut) >= 1
        /\ Len(qdOut) <= MaxSubQueries
        /\ \A i, j \in 1..Len(qdOut) : i # j => qdOut[i] # qdOut[j]

\* the fragments the decomposition of this run yielded: the lines parsed from
\* the model's output when that gave a result, the rule-based ones otherwise
DecomposedFragments ==
    IF qdLlm.kind = "output" /\ ParseOutput(qdLlm.lines) # <<>>
    THEN ParseCandidates(qdLlm.lines)
    ELSE FallbackCandidates(Strip(qdQuestion))

\* C30: whenever the decomposition, by the language model or by the rules,
\* yields at most one distinct fragment, run returns the one-element list
\* that holds the original question unchanged.
C30_SingleFragmentReturnsQuestion ==
    (/\ qdPc = "returned"
     /\ Cardinality({JoinSplit(DecomposedFragments[i]) :
                        i \in 1..Len(DecomposedFragments)}) <= 1)
        => qdOut = <<qdQuestion>>

\* C31: for every job the worker finishes processing (done, failed or
\* cancelled at any check) the stream_events consumer of the job eventually
\* yields the job's done event and ends.
C31_ConsumerEventuallyDone ==
    cwProcessed ~> (csPc = "closed" /\ csOut # <<>> /\ csOut[Len(csOut)].type = "done")

\* C32: once the housing job's status is CANCELLED no step changes it:
\* run_once never sets a cancelled job to RUNNING, COMPLETED or FAILED, under
\* any interleaving with cancel_job.
C32_CancelledIsFinal == [][hjStatus = "CANCELLED" => hjStatus' = "CANCELLED"]_vars

\* C33: the stored status of a chat job never moves backward: once the worker
\* has set it to running or to a worker-written terminal status, no step of
\* create_job (enqueue, then write queued) sets it to queued again.
C33_StatusNeverBackToQueued ==
    [][(cwStatus \in {"running", "done", "failed"}) => (cwStatus' # "queued")]_vars

\* C35: the events the worker has pushed for the job carry strictly
\* increasing seq values, at every point of every path, the cancelled ones
\* included.
C35_SeqStrictlyIncreasing ==
    \A i, j \in 1..Len(cwPushed) : i < j => cwPushed[i].seq < cwPushed[j].seq

\* a job cancelled between two tokens, finished with its events pushed
C35_Witness ==
    /\ cwProcessed
    /\ ~IsNone(cwObservedAt) /\ cwObservedAt[1][1] = "token"
    /\ Len(cwPushed) >= 4
    /\ \E i \in 1..Len(cwPushed) : cwPushed[i].type = "token"
    /\ cwPushed[Len(cwPushed)].type = "done"

\* the contents of the in-progress token events of a stream, in order
TokenContents(evs) ==
    LET toks == SelectSeq(evs, LAMBDA e : e.type = "token" /\ e.status = Some("in_progress"))
    IN [i \in 1..Len(toks) |-> toks[i].content]

\* the items of the references events of a stream, in order
ReferenceItems(evs) ==
    LET refs == SelectSeq(evs, LAMBDA e : e.type = "references")
    IN [i \in 1..Len(refs) |-> refs[i].items]

\* C36: when RagService.stream has finished without failure for a pipeline
\* result and the job's materialisation ran the graph once, got the same
\* result and completed, the token contents and the reference items of the
\* events stream_events returned equal those RagService.stream emitted.
C36_JobPathDeliversPipelineResult ==
    ( /\ svcPc = "closed" /\ ~svcFailed
      /\ rjsJobs[LoggedJobId].status = "completed"
      /\ ~IsNone(rjsFirst)
      /\ rjsRan = <<[graph |-> "ok", result |-> svcResult, failAt |-> "none"]>> )
    => /\ TokenContents(rjsFirst[1]) = TokenContents(svcOut)
       /\ ReferenceItems(rjsFirst[1]) = ReferenceItems(svcOut)

\* C40: once stream_events has returned for the existing job, every later
\* stream_events call returns the same event sequence, whatever cancel calls
\* come in between: the stored events stay what the first call returned and
\* graph.run has been called at most once for the job.
C40_StreamEventsRepeatable ==
    ~IsNone(rjsFirst) =>
        /\ rjsStream[LoggedJobId] = rjsFirst
        /\ rjsEvents[LoggedJobId] = rjsFirst[1]
        /\ Len(rjsRan) <= 1

\* stream_events, cancel, stream_events on a job whose graph ran
C40_Witness ==
    /\ rjsCallLog = <<"stream", "cancel", "stream">>
    /\ Len(rjsRan) = 1
    /\ Len(rjsFirst[1]) > 2

\* C34: a ChatGraph run that has been routed to the fallback node reaches
\* END: whatever route decide_summary writes afterwards, with error_code
\* set, has a successor in the conditional-edge table.
C34_FallbackRunsReachEnd == (cgPc = "fallback") ~> (cgPc = "END")

RetainedVersions(thread_id) ==
    {ParseVersion(s.checkpoint_id)[1] : s \in ckStore[thread_id]}

\* C38: with keep_last = k >= 1, after every save on a thread the snapshots
\* retained for it are exactly those of the versions
\* max(1, latest - k + 1) .. latest: at most k, and the newest k of them.
C38_RetainsNewestK ==
    (~IsNone(ckKeepLast) /\ ckKeepLast[1] >= 1) =>
        \A t \in ThreadIds :
            ckVersion[t] >= 1 =>
                LET lo == IF ckVersion[t] - ckKeepLast[1] + 1 > 1
                          THEN ckVersion[t] - ckKeepLast[1] + 1 ELSE 1
                IN /\ RetainedVersions(t) = lo..ckVersion[t]
                   /\ Cardinality(ckStore[t]) = ckVersion[t] - lo + 1
                   /\ Cardinality(ckStore[t]) <= ckKeepLast[1]

\* keep_last = 2 and a fourth save on a thread: versions 1 and 2 are gone
C38_Witness ==
    /\ ckKeepLast = Some(2)
    /\ \E t \in ThreadIds :
         /\ ckVersion[t] = 4
         /\ RetainedVersions(t) = {3, 4}
         /\ ckLog # <<>> /\ ckLog[Len(ckLog)].op = "save" /\ ckLog[Len(ckLog)].thread = t

\* C39: for every keep_last setting, a load_latest(thread) made right after
\* save(thread, state, metadata) returned checkpoint id c returns the
\* snapshot whose checkpoint_id is c and whose state is the saved state.
C39_LoadLatestAfterSave ==
    ( /\ Len(ckLog) = 2
      /\ ckLog[1].op = "save" /\ ckLog[2].op = "load_latest"
      /\ ckLog[1].thread = ckLog[2].thread )
    => ckLog[2].ret = Some([checkpoint_id |-> ckLog[1].ret[1], state |-> ckLog[1].state[1]])

=============================================================================
